---- MODULE Spec2Model ----
(***************************************************************************)
(* StockSimulator: the ledger (Portfolio) and the transaction engine       *)
(* (TransactionManager) with its audit log (SnapshotStore) and its         *)
(* transaction history (log_transaction), the ledger file (Portfolio.save, *)
(* load_portfolio, cli.save_portfolio, cli.load_portfolio), the ledger's   *)
(* own operations (Portfolio.buy, sell, total_value) and the analytics     *)
(* (compute_pl), the commands buy and sell (cli.cmd_buy, cmd_sell), the     *)
(* simulation loop (main.safe_dispatch) and the HTTP trade endpoint        *)
(* (api_server.execute_trade).  Nine specifications share the variables:   *)
(* Spec (the engine), SpecLog (the history file), SpecStore (the ledger    *)
(* file), SpecLedger (the ledger's operations), SpecPL (the analytics),    *)
(* SpecRace (sell called from two threads), SpecCli (the commands),        *)
(* SpecLoop (the simulation loop), SpecHttp (the endpoint, two handlers).  *)
(*                                                                         *)
(* Numbers are Python floats.  A float is modelled as a record             *)
(*   [k |-> "fin", v |-> n]   a finite value n (an integer number of units)*)
(*   [k |-> "inf"] / [k |-> "ninf"]   +infinity / -infinity                *)
(*   [k |-> "nan"]            not-a-number                                 *)
(* with IEEE-754 comparison and arithmetic: every ordered comparison with  *)
(* nan is false, inf - inf = nan, 0 * inf = nan.  Rounding of finite       *)
(* values is not modelled.  [k |-> "nonnum"] stands for a Python object    *)
(* that is no number (None, a list, ...).                                  *)
(*                                                                         *)
(* Strings are sequences of one-character strings.                         *)
(***************************************************************************)
EXTENDS Integers, Sequences, FiniteSets, TLC

\* ------------------------------------------------------------------ bounds
\* Number of ledger mutations the model follows from the initial ledger.
MaxTrades == 2

\* ------------------------------------------------------------------ floats
Fin(n) == [k |-> "fin", v |-> n]
NaN == [k |-> "nan", v |-> 0]
PInf == [k |-> "inf", v |-> 0]
NInf == [k |-> "ninf", v |-> 0]
NonNum == [k |-> "nonnum", v |-> 0]

IsNaN(a) == a.k = "nan"

\* a < b on floats
FLt(a, b) ==
    /\ ~IsNaN(a)
    /\ ~IsNaN(b)
    /\ CASE a.k = "ninf" -> b.k # "ninf"
         [] a.k = "fin" -> (b.k = "inf" \/ (b.k = "fin" /\ a.v < b.v))
         [] OTHER -> FALSE

\* a == b on floats (nan is not equal to itself)
FEq(a, b) == ~IsNaN(a) /\ ~IsNaN(b) /\ a = b

\* a <= b on floats
FLe(a, b) == FLt(a, b) \/ FEq(a, b)

\* a > b on floats
FGt(a, b) == FLt(b, a)

\* a >= b on floats
FGe(a, b) == FLe(b, a)

FNeg(a) ==
    CASE a.k = "fin" -> Fin(0 - a.v)
      [] a.k = "inf" -> NInf
      [] a.k = "ninf" -> PInf
      [] OTHER -> NaN

\* a + b on floats
FAdd(a, b) ==
    CASE IsNaN(a) \/ IsNaN(b) -> NaN
      [] a.k = "fin" /\ b.k = "fin" -> Fin(a.v + b.v)
      [] a.k = "fin" -> b
      [] b.k = "fin" -> a
      [] a.k = b.k -> a
      [] OTHER -> NaN

\* a - b on floats
FSub(a, b) == FAdd(a, FNeg(b))

FSign(a) ==
    CASE a.k = "inf" -> 1
      [] a.k = "ninf" -> 0 - 1
      [] a.v > 0 -> 1
      [] a.v < 0 -> 0 - 1
      [] OTHER -> 0

\* a * b on floats
FMul(a, b) ==
    CASE IsNaN(a) \/ IsNaN(b) -> NaN
      [] a.k = "fin" /\ b.k = "fin" -> Fin(a.v * b.v)
      [] FSign(a) * FSign(b) > 0 -> PInf
      [] FSign(a) * FSign(b) < 0 -> NInf
      [] OTHER -> NaN

Zero == Fin(0)

\* ----------------------------------------------------------------- strings
\* str.upper() on one character
UpperChar(c) ==
    CASE c = "a" -> "A"
      [] c = "b" -> "B"
      [] OTHER -> c

\* str.upper()
Upper(s) == [i \in 1..Len(s) |-> UpperChar(s[i])]

IsSpace(c) == c = " "

RECURSIVE LStrip(_)
LStrip(s) == IF s # <<>> /\ IsSpace(Head(s)) THEN LStrip(Tail(s)) ELSE s

RECURSIVE RStrip(_)
RStrip(s) ==
    IF s # <<>> /\ IsSpace(s[Len(s)]) THEN RStrip(SubSeq(s, 1, Len(s) - 1)) ELSE s

\* str.strip()
Strip(s) == RStrip(LStrip(s))

\* A Python value passed as a ticker: a string, or an object that is no string.
Str(s) == [isStr |-> TRUE, s |-> s]
NotStr == [isStr |-> FALSE, s |-> <<>>]

\* ----------------------------------------------------------------- results
\* A call either returns a value or raises an exception of some kind.
Ret(x) == [ok |-> TRUE, val |-> x, err |-> "none"]
Raise(kind) == [ok |-> FALSE, val |-> Zero, err |-> kind]
RaiseS(kind) == [ok |-> FALSE, val |-> <<>>, err |-> kind]

\* -------------------------------------------------------------- validators
normalize_ticker(raw_ticker) ==
    IF raw_ticker = <<>> THEN <<>> ELSE Upper(Strip(raw_ticker))

validate_ticker(ticker) ==
    LET clean_ticker == normalize_ticker(ticker) IN
    IF clean_ticker = <<>> THEN RaiseS("ValidationError") ELSE Ret(clean_ticker)

validate_positive_number(value) ==
    IF value.k = "nonnum" THEN Raise("ValidationError")
    ELSE IF FLe(value, Zero) THEN Raise("ValidationError")
    ELSE Ret(value)

\* ------------------------------------------------------------------ ledger
\* dict.get(key, default)
Get(d, key, default) == IF key \in DOMAIN d THEN d[key] ELSE default

\* d[key] = value
Put(d, key, value) == [x \in DOMAIN d \cup {key} |-> IF x = key THEN value ELSE d[x]]

\* d.pop(key, None)
Pop(d, key) == [x \in DOMAIN d \ {key} |-> d[x]]

EmptyDict == [x \in {} |-> Zero]

\* ------------------------------------------------- audit log (snapshots.csv)
\* One line of the CSV file.  The header line and the data rows share one
\* record shape; the timestamp column is not modelled.
HeaderLine ==
    [event |-> "header", ticker |-> <<>>, quantity |-> Zero, price |-> Zero,
     cash |-> Zero, holdings_value |-> Zero, total_value |-> Zero]

Snapshot(event, ticker, quantity, price, cash, holdings_value, total_value) ==
    [event |-> event, ticker |-> ticker, quantity |-> quantity, price |-> price,
     cash |-> cash, holdings_value |-> holdings_value, total_value |-> total_value]

NoFile == [exists |-> FALSE, lines |-> <<>>]

\* Mutant: the header is written by every append.
append_snapshot_always_header(file, event, ticker, quantity, price, cash, holdings_value, io) ==
    LET total_value == FAdd(cash, holdings_value)
        snap == Snapshot(event, ticker, quantity, price, cash, holdings_value, total_value)
    IN  CASE io = "raise" -> [raised |-> TRUE, ret |-> FALSE, file |-> file]
          [] io = "oserror" -> [raised |-> FALSE, ret |-> FALSE, file |-> file]
          [] OTHER ->
               [raised |-> FALSE, ret |-> TRUE,
                file |-> [exists |-> TRUE,
                          lines |-> file.lines \o <<HeaderLine, snap>>]]

\* SnapshotStore.append_snapshot.  io is what the file system (and the clock)
\* do in this call: "ok", "oserror" (caught, returns False) or "raise" (an
\* exception that is no OSError, which the method does not catch).
append_snapshot(file, event, ticker, quantity, price, cash, holdings_value, io) ==
    LET total_value == FAdd(cash, holdings_value)
        snap == Snapshot(event, ticker, quantity, price, cash, holdings_value, total_value)
    IN  CASE io = "raise" -> [raised |-> TRUE, ret |-> FALSE, file |-> file]
          [] io = "oserror" -> [raised |-> FALSE, ret |-> FALSE, file |-> file]
          [] OTHER ->
               [raised |-> FALSE, ret |-> TRUE,
                file |-> [exists |-> TRUE,
                          lines |-> IF ~file.exists
                                    THEN <<HeaderLine, snap>>
                                    ELSE Append(file.lines, snap)]]

\* ------------------------------------------------------ Transaction record
\* The fields of the frozen dataclass Transaction.
TransactionFields ==
    {"kind", "ticker", "quantity", "price", "gross_amount", "cash_after"}

\* Transaction(**kwargs): the generated __init__ takes exactly the declared
\* fields (none has a default) and raises TypeError otherwise.
Transaction(kwargs) ==
    IF DOMAIN kwargs = TransactionFields
    THEN [ok |-> TRUE, val |-> kwargs, err |-> "none"]
    ELSE [ok |-> FALSE, val |-> kwargs, err |-> "TypeError"]

\* ------------------------------------- transaction history (transactions.json)
\* The file is missing (st "missing"), holds a JSON list of records ("list"),
\* holds text that is not JSON ("corrupt"), cannot be read ("unreadable": open
\* or read raises OSError), or holds JSON that is no list, such as an object,
\* a number, a string or null ("notlist").
NoHistory == [st |-> "missing", recs |-> <<>>]

\* tx.kind.upper()
UpperKind(kind) ==
    CASE kind = "buy" -> "BUY"
      [] kind = "sell" -> "SELL"
      [] OTHER -> kind

\* Mutant: the existing history is dropped, the file holds the new record only.
log_transaction_overwrite(file, tx, io) ==
    IF "timestamp" \notin DOMAIN tx
    THEN [raised |-> TRUE, err |-> "AttributeError", ret |-> FALSE, file |-> file]
    ELSE
    LET record == [side |-> UpperKind(tx.kind), ticker |-> tx.ticker, quantity |-> tx.quantity,
                   price |-> tx.price, total |-> tx.gross_amount,
                   cash_after |-> tx.cash_after]
    IN  IF io = "oserror"
        THEN [raised |-> FALSE, err |-> "none", ret |-> FALSE, file |-> file]
        ELSE IF io = "oserror_write"
        THEN [raised |-> FALSE, err |-> "none", ret |-> FALSE,
              file |-> [st |-> "corrupt", recs |-> <<>>]]
        ELSE [raised |-> FALSE, err |-> "none", ret |-> TRUE,
              file |-> [st |-> "list", recs |-> <<record>>]]

\* log_transaction(tx).  io is what the file system does when the file is
\* written: "ok", "oserror" (open for writing raises OSError, the file is as
\* it was) or "oserror_write" (the write raises OSError after open has
\* truncated the file).  The timestamp of the record is not modelled.
log_transaction(file, tx, io) ==
    IF "timestamp" \notin DOMAIN tx
    THEN [raised |-> TRUE, err |-> "AttributeError", ret |-> FALSE, file |-> file]
    ELSE
    LET record == [side |-> UpperKind(tx.kind), ticker |-> tx.ticker, quantity |-> tx.quantity,
                   price |-> tx.price, total |-> tx.gross_amount,
                   cash_after |-> tx.cash_after]
        existing == IF file.st = "list" THEN file.recs ELSE <<>>
    IN  IF file.st = "notlist"
        THEN [raised |-> TRUE, err |-> "AttributeError", ret |-> FALSE, file |-> file]
        ELSE IF io = "oserror"
        THEN [raised |-> FALSE, err |-> "none", ret |-> FALSE, file |-> file]
        ELSE IF io = "oserror_write"
        THEN [raised |-> FALSE, err |-> "none", ret |-> FALSE,
              file |-> [st |-> "corrupt", recs |-> <<>>]]
        ELSE [raised |-> FALSE, err |-> "none", ret |-> TRUE,
              file |-> [st |-> "list", recs |-> Append(existing, record)]]

\* ------------------------------------------------------ TransactionManager
\* What the injected price provider does when called: it raises, or returns a
\* value (a float, or an object that is no int/float).
ProviderRaises == [k |-> "raise", v |-> 0]

\* Mutant: the ticker is checked and handed on as it was passed.
_validate_ticker_as_passed(ticker) ==
    IF ~ticker.isStr THEN RaiseS("InvalidTickerError")
    ELSE LET r == validate_ticker(ticker.s) IN
         IF r.ok THEN Ret(ticker.s) ELSE RaiseS("InvalidTickerError")

_validate_ticker(ticker) ==
    IF ~ticker.isStr THEN RaiseS("InvalidTickerError")
    ELSE LET r == validate_ticker(ticker.s) IN
         IF r.ok THEN r ELSE RaiseS("InvalidTickerError")

_validate_quantity(qty) ==
    LET r == validate_positive_number(qty) IN
    IF r.ok THEN r ELSE Raise("InvalidQuantityError")

\* Mutant: the test of is_open is inverted.
_ensure_market_open_inverted(cfg, env) ==
    IF ~cfg.market_open_check
    THEN [blocked |-> FALSE, calls |-> <<>>, state |-> ""]
    ELSE IF env.market = "raise"
    THEN [blocked |-> FALSE, calls |-> <<"market_open_check">>, state |-> ""]
    ELSE IF env.market = "closed"
    THEN [blocked |-> FALSE, calls |-> <<"market_open_check">>, state |-> ""]
    ELSE [blocked |-> TRUE, calls |-> <<"market_open_check">>, state |-> ""]

\* Mutant: a market_open_check that raises blocks the trade (fail closed).
_ensure_market_open_fail_closed(cfg, env) ==
    IF ~cfg.market_open_check
    THEN [blocked |-> FALSE, calls |-> <<>>, state |-> ""]
    ELSE IF env.market = "open"
    THEN [blocked |-> FALSE, calls |-> <<"market_open_check">>, state |-> ""]
    ELSE IF ~cfg.market_state_provider
    THEN [blocked |-> TRUE, calls |-> <<"market_open_check">>, state |-> ""]
    ELSE [blocked |-> TRUE,
          calls |-> <<"market_open_check", "market_state_provider">>,
          state |-> IF env.state = "raise" THEN "" ELSE env.state]

\* _ensure_market_open.  cfg tells which collaborators were injected; env.market
\* is what market_open_check does ("open", "closed", "raise") and env.state what
\* market_state_provider does ("raise", or the state text it returns).
\* calls lists the collaborators consulted, state the text put in the message.
_ensure_market_open(cfg, env) ==
    IF ~cfg.market_open_check
    THEN [blocked |-> FALSE, calls |-> <<>>, state |-> ""]
    ELSE IF env.market = "raise"
    THEN [blocked |-> FALSE, calls |-> <<"market_open_check">>, state |-> ""]
    ELSE IF env.market = "open"
    THEN [blocked |-> FALSE, calls |-> <<"market_open_check">>, state |-> ""]
    ELSE IF ~cfg.market_state_provider
    THEN [blocked |-> TRUE, calls |-> <<"market_open_check">>, state |-> ""]
    ELSE [blocked |-> TRUE,
          calls |-> <<"market_open_check", "market_state_provider">>,
          state |-> IF env.state = "raise" THEN "" ELSE env.state]

\* Mutant: a price of zero is accepted.
_get_price_zero_ok(provided) ==
    IF provided.k = "raise" THEN Raise("PriceFetchError")
    ELSE IF provided.k = "nonnum" THEN Raise("PriceFetchError")
    ELSE IF FLt(provided, Zero) THEN Raise("PriceFetchError")
    ELSE Ret(provided)

_get_price(provided) ==
    IF provided.k = "raise" THEN Raise("PriceFetchError")
    ELSE IF provided.k = "nonnum" THEN Raise("PriceFetchError")
    ELSE IF FLe(provided, Zero) THEN Raise("PriceFetchError")
    ELSE Ret(provided)

\* The result of one engine call: how it ended ("returned" or the exception
\* raised), the ledger and the two files after it, and what it did on the way.
Result(outcome, cash, holdings, snapshots, transactions, calls, state, clean, qty, price, mutated) ==
    [outcome |-> outcome, cash |-> cash, holdings |-> holdings,
     snapshots |-> snapshots, transactions |-> transactions,
     calls |-> calls, state |-> state, clean |-> clean, qty |-> qty,
     price |-> price, mutated |-> mutated]

\* Mutant: the row's holdings_value is the value of the traded quantity.
AfterMutation_traded_value(kind, event, cash, holdings, snapshots, transactions, cfg, calls, clean_ticker, qty, price, total, env) ==
    LET holdings_value == FMul(qty, price)
        snap == IF cfg.snapshot_store
                THEN append_snapshot(snapshots, event, clean_ticker, qty, price,
                                     cash, holdings_value, env.snapshot)
                ELSE [raised |-> FALSE, ret |-> FALSE, file |-> snapshots]
        calls1 == IF cfg.snapshot_store THEN Append(calls, "append_snapshot") ELSE calls
        tx == Transaction([kind |-> kind, ticker |-> clean_ticker, quantity |-> qty,
                           price |-> price, gross_amount |-> total,
                           cash_after |-> cash, timestamp |-> "utc"])
        logged == log_transaction(transactions, tx.val, env.txlog)
    IN  IF snap.raised
        THEN Result("Exception", cash, holdings, snap.file, transactions, calls1,
                    "", clean_ticker, qty, price, TRUE)
        ELSE IF ~tx.ok
        THEN Result(tx.err, cash, holdings, snap.file, transactions, calls1,
                    "", clean_ticker, qty, price, TRUE)
        ELSE IF logged.raised
        THEN Result(logged.err, cash, holdings, snap.file, logged.file,
                    Append(calls1, "transaction_logger"),
                    "", clean_ticker, qty, price, TRUE)
        ELSE Result("returned", cash, holdings, snap.file, logged.file,
                    Append(calls1, "transaction_logger"),
                    "", clean_ticker, qty, price, TRUE)

\* The part of buy/sell after the ledger mutation: snapshot, Transaction
\* record, transaction logger.  cash and holdings are the mutated ledger.
AfterMutation(kind, event, cash, holdings, snapshots, transactions, cfg, calls, clean_ticker, qty, price, total, env) ==
    LET holdings_value == FMul(Get(holdings, clean_ticker, Zero), price)
        snap == IF cfg.snapshot_store
                THEN append_snapshot(snapshots, event, clean_ticker, qty, price,
                                     cash, holdings_value, env.snapshot)
                ELSE [raised |-> FALSE, ret |-> FALSE, file |-> snapshots]
        calls1 == IF cfg.snapshot_store THEN Append(calls, "append_snapshot") ELSE calls
        tx == Transaction([kind |-> kind, ticker |-> clean_ticker, quantity |-> qty,
                           price |-> price, gross_amount |-> total,
                           cash_after |-> cash, timestamp |-> "utc"])
        logged == log_transaction(transactions, tx.val, env.txlog)
    IN  IF snap.raised
        THEN Result("Exception", cash, holdings, snap.file, transactions, calls1,
                    "", clean_ticker, qty, price, TRUE)
        ELSE IF ~tx.ok
        THEN Result(tx.err, cash, holdings, snap.file, transactions, calls1,
                    "", clean_ticker, qty, price, TRUE)
        ELSE IF logged.raised
        THEN Result(logged.err, cash, holdings, snap.file, logged.file,
                    Append(calls1, "transaction_logger"),
                    "", clean_ticker, qty, price, TRUE)
        ELSE Result("returned", cash, holdings, snap.file, logged.file,
                    Append(calls1, "transaction_logger"),
                    "", clean_ticker, qty, price, TRUE)

\* Mutant: buy adds the shares before the funds check and does not undo it.
Rejected_holdings_first(err, cash, holdings, snapshots, transactions, calls, state, clean, qty, price) ==
    Result(err, cash,
           IF err = "InsufficientFundsError"
           THEN Put(holdings, clean, FAdd(Get(holdings, clean, Zero), qty))
           ELSE holdings,
           snapshots, transactions, calls, state, clean, qty, price, FALSE)

\* A call that raises before the ledger mutation.
Rejected(err, cash, holdings, snapshots, transactions, calls, state, clean, qty, price) ==
    Result(err, cash, holdings, snapshots, transactions, calls, state, clean, qty,
           price, FALSE)

\* Mutant: a cost equal to the cash is refused.
InsufficientFunds_strict(cash, total_cost) == FLe(cash, total_cost)

\* buy: the funds check
InsufficientFunds(cash, total_cost) == FLt(cash, total_cost)

\* Mutant: the bought quantity replaces the holding instead of adding to it.
BuyMutation_overwrite(cash, holdings, clean_ticker, qty, total_cost) ==
    [cash |-> FSub(cash, total_cost),
     holdings |-> Put(holdings, clean_ticker, qty)]

\* buy: the ledger mutation
BuyMutation(cash, holdings, clean_ticker, qty, total_cost) ==
    [cash |-> FSub(cash, total_cost),
     holdings |-> Put(holdings, clean_ticker,
                      FAdd(Get(holdings, clean_ticker, Zero), qty))]

\* Mutant: a ticker that is not held passes the holdings check.
InsufficientHoldings_held_only(owned, qty) == FLt(owned, qty) /\ owned # Zero

\* sell: the holdings check
InsufficientHoldings(owned, qty) == FLt(owned, qty)

\* Mutant: the proceeds are debited instead of credited.
SellMutation_debit(cash, holdings, clean_ticker, owned, qty, total_proceeds) ==
    LET remaining == FSub(owned, qty) IN
    [cash |-> FSub(cash, total_proceeds),
     holdings |-> IF FLe(remaining, Zero)
                  THEN Pop(holdings, clean_ticker)
                  ELSE Put(holdings, clean_ticker, remaining)]

\* Mutant: a holding sold down to zero keeps its key.
SellMutation_keep_zero(cash, holdings, clean_ticker, owned, qty, total_proceeds) ==
    LET remaining == FSub(owned, qty) IN
    [cash |-> FAdd(cash, total_proceeds),
     holdings |-> IF FLt(remaining, Zero)
                  THEN Pop(holdings, clean_ticker)
                  ELSE Put(holdings, clean_ticker, remaining)]

\* sell: the ledger mutation
SellMutation(cash, holdings, clean_ticker, owned, qty, total_proceeds) ==
    LET remaining == FSub(owned, qty) IN
    [cash |-> FAdd(cash, total_proceeds),
     holdings |-> IF FLe(remaining, Zero)
                  THEN Pop(holdings, clean_ticker)
                  ELSE Put(holdings, clean_ticker, remaining)]

\* TransactionManager.buy(ticker, amount)
buy(cash, holdings, snapshots, transactions, cfg, ticker, amount, env) ==
    LET t == _validate_ticker(ticker)
        q == _validate_quantity(amount)
        m == _ensure_market_open(cfg, env)
        calls == Append(m.calls, "price_provider")
        p == _get_price(env.price)
        total_cost == FMul(q.val, p.val)
        after == BuyMutation(cash, holdings, t.val, q.val, total_cost)
    IN  IF ~t.ok
        THEN Rejected(t.err, cash, holdings, snapshots, transactions, <<>>, "",
                      <<>>, NonNum, NonNum)
        ELSE IF ~q.ok
        THEN Rejected(q.err, cash, holdings, snapshots, transactions, <<>>, "",
                      t.val, NonNum, NonNum)
        ELSE IF m.blocked
        THEN Rejected("MarketClosedError", cash, holdings, snapshots, transactions,
                      m.calls, m.state, t.val, q.val, NonNum)
        ELSE IF ~p.ok
        THEN Rejected(p.err, cash, holdings, snapshots, transactions, calls, "",
                      t.val, q.val, NonNum)
        ELSE IF InsufficientFunds(cash, total_cost)
        THEN Rejected("InsufficientFundsError", cash, holdings, snapshots,
                      transactions, calls, "", t.val, q.val, p.val)
        ELSE AfterMutation("buy", "BUY", after.cash, after.holdings,
                           snapshots, transactions, cfg, calls, t.val, q.val, p.val,
                           total_cost, env)

\* Mutant: sell acquires the price before it checks the holdings.
sell_price_first(cash, holdings, snapshots, transactions, cfg, ticker, amount, env) ==
    LET t == _validate_ticker(ticker)
        q == _validate_quantity(amount)
        m == _ensure_market_open(cfg, env)
        owned == Get(holdings, t.val, Zero)
        calls == Append(m.calls, "price_provider")
        p == _get_price(env.price)
        total_proceeds == FMul(q.val, p.val)
        after == SellMutation(cash, holdings, t.val, owned, q.val, total_proceeds)
    IN  IF ~t.ok
        THEN Rejected(t.err, cash, holdings, snapshots, transactions, <<>>, "",
                      <<>>, NonNum, NonNum)
        ELSE IF ~q.ok
        THEN Rejected(q.err, cash, holdings, snapshots, transactions, <<>>, "",
                      t.val, NonNum, NonNum)
        ELSE IF m.blocked
        THEN Rejected("MarketClosedError", cash, holdings, snapshots, transactions,
                      m.calls, m.state, t.val, q.val, NonNum)
        ELSE IF ~p.ok
        THEN Rejected(p.err, cash, holdings, snapshots, transactions, calls, "",
                      t.val, q.val, NonNum)
        ELSE IF InsufficientHoldings(owned, q.val)
        THEN Rejected("InsufficientHoldingsError", cash, holdings, snapshots,
                      transactions, calls, "", t.val, q.val, p.val)
        ELSE AfterMutation("sell", "SELL", after.cash, after.holdings,
                           snapshots, transactions, cfg, calls, t.val, q.val, p.val,
                           total_proceeds, env)

\* TransactionManager.sell(ticker, amount)
sell(cash, holdings, snapshots, transactions, cfg, ticker, amount, env) ==
    LET t == _validate_ticker(ticker)
        q == _validate_quantity(amount)
        m == _ensure_market_open(cfg, env)
        owned == Get(holdings, t.val, Zero)
        calls == Append(m.calls, "price_provider")
        p == _get_price(env.price)
        total_proceeds == FMul(q.val, p.val)
        after == SellMutation(cash, holdings, t.val, owned, q.val, total_proceeds)
    IN  IF ~t.ok
        THEN Rejected(t.err, cash, holdings, snapshots, transactions, <<>>, "",
                      <<>>, NonNum, NonNum)
        ELSE IF ~q.ok
        THEN Rejected(q.err, cash, holdings, snapshots, transactions, <<>>, "",
                      t.val, NonNum, NonNum)
        ELSE IF m.blocked
        THEN Rejected("MarketClosedError", cash, holdings, snapshots, transactions,
                      m.calls, m.state, t.val, q.val, NonNum)
        ELSE IF InsufficientHoldings(owned, q.val)
        THEN Rejected("InsufficientHoldingsError", cash, holdings, snapshots,
                      transactions, m.calls, "", t.val, q.val, NonNum)
        ELSE IF ~p.ok
        THEN Rejected(p.err, cash, holdings, snapshots, transactions, calls, "",
                      t.val, q.val, NonNum)
        ELSE AfterMutation("sell", "SELL", after.cash, after.holdings,
                           snapshots, transactions, cfg, calls, t.val, q.val, p.val,
                           total_proceeds, env)

\* ----------------------------------------- ledger persistence (portfolio.json)
SCHEMA_VERSION == 1

\* Portfolio(): the default cash of a freshly-initialized ledger.
DefaultCash == 10000

DefaultPortfolio == [cash |-> Fin(DefaultCash), holdings |-> EmptyDict]

\* The JSON value a file holds.  top is the kind of the top-level value
\* ("object" or "list"); version is the value of "schema_version", 0 when the
\* key is absent; cash is the value of "cash": a number, a value that float()
\* does not convert (NonNum), or Absent when the key is absent; holdings is
\* the value of "holdings": a JSON object (isDict) or something else.
Absent == [k |-> "absent", v |-> 0]

NoDoc ==
    [top |-> "none", version |-> 0, cash |-> Absent,
     holdings |-> [isDict |-> FALSE, d |-> EmptyDict]]

\* The file at the ledger's location: st is "missing", "dir" (the path exists
\* and is no file), "unreadable" (opening it raises OSError), "notjson" (text
\* that is no JSON), "torn" (the beginning of a JSON text: the file after it
\* was truncated and before its writer finished) or "json".
FileOf(doc) == [st |-> "json", doc |-> doc]

FileIn(st) == [st |-> st, doc |-> NoDoc]

\* What a loader does: it returns a Portfolio or raises.
Loaded(l) == [ok |-> TRUE, val |-> l, err |-> "none"]

LoadRaises(kind) == [ok |-> FALSE, val |-> DefaultPortfolio, err |-> kind]

\* The payload Portfolio.save writes: schema_version, saved_at (not
\* modelled), and to_dict().
SavePayload(cash, holdings) ==
    [top |-> "object", version |-> SCHEMA_VERSION, cash |-> cash,
     holdings |-> [isDict |-> TRUE, d |-> holdings]]

\* What cli.save_portfolio writes: to_dict() alone.
CliPayload(cash, holdings) ==
    [top |-> "object", version |-> 0, cash |-> cash,
     holdings |-> [isDict |-> TRUE, d |-> holdings]]

\* Mutant: a cash of zero is rejected with the negative ones.
parse_portfolio_dict_zero_cash(data) ==
    IF data.top # "object" THEN LoadRaises("AttributeError")
    ELSE IF data.version # SCHEMA_VERSION THEN LoadRaises("ValueError")
    ELSE IF data.cash.k \in {"absent", "nonnum"} THEN LoadRaises("ValueError")
    ELSE IF FLe(data.cash, Zero) THEN LoadRaises("ValueError")
    ELSE IF ~data.holdings.isDict THEN LoadRaises("ValueError")
    ELSE LET h == data.holdings.d
             kept == {t \in DOMAIN h : FGt(h[t], Zero)}
         IN  IF \E t \in DOMAIN h :
                    Strip(t) = <<>> \/ h[t].k = "nonnum" \/ FLt(h[t], Zero)
             THEN LoadRaises("ValueError")
             ELSE Loaded([cash |-> data.cash,
                          holdings |-> [u \in {Upper(t) : t \in kept} |->
                                          h[CHOOSE t \in kept : Upper(t) = u]]])

\* parse_portfolio_dict(data).  data.get on a list raises AttributeError.
parse_portfolio_dict(data) ==
    IF data.top # "object" THEN LoadRaises("AttributeError")
    ELSE IF data.version # SCHEMA_VERSION THEN LoadRaises("ValueError")
    ELSE IF data.cash.k \in {"absent", "nonnum"} THEN LoadRaises("ValueError")
    ELSE IF FLt(data.cash, Zero) THEN LoadRaises("ValueError")
    ELSE IF ~data.holdings.isDict THEN LoadRaises("ValueError")
    ELSE LET h == data.holdings.d
             kept == {t \in DOMAIN h : FGt(h[t], Zero)}
         IN  IF \E t \in DOMAIN h :
                    Strip(t) = <<>> \/ h[t].k = "nonnum" \/ FLt(h[t], Zero)
             THEN LoadRaises("ValueError")
             ELSE Loaded([cash |-> data.cash,
                          holdings |-> [u \in {Upper(t) : t \in kept} |->
                                          h[CHOOSE t \in kept : Upper(t) = u]]])

\* portfolio.load_portfolio(path): every exception of the read and of the
\* parse is caught and answered with Portfolio().
load_portfolio(file) ==
    IF file.st \in {"missing", "dir"} THEN Loaded(DefaultPortfolio)
    ELSE IF file.st \in {"unreadable", "notjson", "torn"} THEN Loaded(DefaultPortfolio)
    ELSE LET parsed == parse_portfolio_dict(file.doc)
         IN  IF parsed.ok THEN parsed ELSE Loaded(DefaultPortfolio)

\* cli.load_portfolio(path): OSError, JSONDecodeError, ValueError and
\* TypeError are caught and answered with Portfolio(); nothing else is.
cli_load_portfolio(file) ==
    IF file.st = "missing" THEN Loaded(DefaultPortfolio)
    ELSE IF file.st \in {"dir", "unreadable"} THEN Loaded(DefaultPortfolio)
    ELSE IF file.st \in {"notjson", "torn"} THEN Loaded(DefaultPortfolio)
    ELSE IF file.doc.top # "object" THEN LoadRaises("AttributeError")
    ELSE IF file.doc.cash.k = "nonnum" THEN Loaded(DefaultPortfolio)
    ELSE IF ~file.doc.holdings.isDict THEN Loaded(DefaultPortfolio)
    ELSE Loaded([cash |-> IF file.doc.cash.k = "absent"
                          THEN Fin(DefaultCash) ELSE file.doc.cash,
                 holdings |-> file.doc.holdings.d])

\* ------------------------------------- the ledger's own operations (Portfolio)
\* Portfolio.save() as one call.  io is what the file system does: "ok",
\* "oserror_open" (the temporary file cannot be opened) or "oserror_write"
\* (the write into it fails).  The rename fails when the target is a
\* directory.  OSError is answered with False.
Portfolio_save(cash, holdings, disk, tmp, io) ==
    IF io = "oserror_open"
    THEN [ret |-> FALSE, disk |-> disk, tmp |-> tmp]
    ELSE IF io = "oserror_write"
    THEN [ret |-> FALSE, disk |-> disk, tmp |-> FileIn("torn")]
    ELSE IF disk.st = "dir"
    THEN [ret |-> FALSE, disk |-> disk, tmp |-> FileOf(SavePayload(cash, holdings))]
    ELSE [ret |-> TRUE, disk |-> FileOf(SavePayload(cash, holdings)),
          tmp |-> FileIn("missing")]

\* How a call of Portfolio.buy or Portfolio.sell ends: the exception raised
\* ("none" when the call returns), the ledger and the files after it, and
\* what the save it made returned ("notcalled" when it made none).
LedgerResult(raised, cash, holdings, disk, tmp, saved) ==
    [raised |-> raised, cash |-> cash, holdings |-> holdings, disk |-> disk,
     tmp |-> tmp, saved |-> saved]

AfterAutosave(cash, holdings, disk, tmp, io) ==
    LET s == Portfolio_save(cash, holdings, disk, tmp, io) IN
    LedgerResult("none", cash, holdings, s.disk, s.tmp,
                 IF s.ret THEN "True" ELSE "False")

\* Portfolio.buy(ticker, quantity, price)
Portfolio_buy(cash, holdings, disk, tmp, ticker, quantity, price, io) ==
    LET cost == FMul(quantity, price) IN
    IF FGt(cost, cash)
    THEN LedgerResult("ValueError", cash, holdings, disk, tmp, "notcalled")
    ELSE AfterAutosave(FSub(cash, cost),
                       Put(holdings, ticker, FAdd(Get(holdings, ticker, Zero), quantity)),
                       disk, tmp, io)

\* Portfolio.sell(ticker, quantity, price)
Portfolio_sell(cash, holdings, disk, tmp, ticker, quantity, price, io) ==
    IF ticker \notin DOMAIN holdings
    THEN LedgerResult("ValueError", cash, holdings, disk, tmp, "notcalled")
    ELSE IF FGt(quantity, holdings[ticker])
    THEN LedgerResult("ValueError", cash, holdings, disk, tmp, "notcalled")
    ELSE LET left == FSub(holdings[ticker], quantity) IN
         AfterAutosave(FAdd(cash, FMul(quantity, price)),
                       IF FLe(left, Zero) THEN Pop(holdings, ticker)
                       ELSE Put(holdings, ticker, left),
                       disk, tmp, io)

\* The loop of total_value over the holdings not yet visited.
RECURSIVE AddValues(_, _, _, _)
AddValues(total, holdings, price_map, todo) ==
    IF todo = {} THEN total
    ELSE LET ticker == CHOOSE t \in todo : TRUE
             price == Get(price_map, ticker, Zero)
         IN  AddValues(FAdd(total, FMul(holdings[ticker], price)), holdings,
                       price_map, todo \ {ticker})

\* Mutant: a ticker without a price raises KeyError (price_map[ticker]).
total_value_keyerror(cash, holdings, price_map) ==
    IF DOMAIN holdings \subseteq DOMAIN price_map
    THEN Ret(AddValues(cash, holdings, price_map, DOMAIN holdings))
    ELSE Raise("KeyError")

\* Portfolio.total_value(price_map)
total_value(cash, holdings, price_map) ==
    Ret(AddValues(cash, holdings, price_map, DOMAIN holdings))

\* --------------------------------------------------- analytics (compute_pl)
\* The replay divides, so its numbers are fractions n/d in lowest terms with
\* d > 0, and nan (a missing cell of a DataFrame, a value to_numeric coerces).
\* Rounding of the float operations is not modelled; round(x, 4) is.
RECURSIVE GCD(_, _)
GCD(a, b) == IF b = 0 THEN a ELSE GCD(b, a % b)

Abs(n) == IF n < 0 THEN 0 - n ELSE n

Rat(n, d) ==
    LET g == GCD(Abs(n), Abs(d))
        sgn == IF d < 0 THEN 0 - 1 ELSE 1
    IN  [k |-> "fin", n |-> (sgn * n) \div g, d |-> (sgn * d) \div g]

RInt(n) == Rat(n, 1)

RNaN == [k |-> "nan", n |-> 0, d |-> 1]

RAdd(a, b) ==
    IF a.k = "nan" \/ b.k = "nan" THEN RNaN
    ELSE Rat(a.n * b.d + b.n * a.d, a.d * b.d)

RSub(a, b) ==
    IF a.k = "nan" \/ b.k = "nan" THEN RNaN
    ELSE Rat(a.n * b.d - b.n * a.d, a.d * b.d)

RMul(a, b) ==
    IF a.k = "nan" \/ b.k = "nan" THEN RNaN
    ELSE Rat(a.n * b.n, a.d * b.d)

\* a / b; compute_pl divides by a tracked quantity only after the test
\* `<= 0` was false of it, so b is nan or a fraction that is not 0.
RDiv(a, b) ==
    IF a.k = "nan" \/ b.k = "nan" \/ b.n = 0 THEN RNaN
    ELSE Rat(a.n * b.d, a.d * b.n)

\* a < b, a <= b, a > b: false when either is nan
RLt(a, b) == a.k = "fin" /\ b.k = "fin" /\ a.n * b.d < b.n * a.d

RLe(a, b) == a.k = "fin" /\ b.k = "fin" /\ a.n * b.d <= b.n * a.d

RGt(a, b) == RLt(b, a)

\* min(a, b) of Python: b when b < a, else a
RMin(a, b) == IF RLt(b, a) THEN b ELSE a

\* round(a, 4): the nearest multiple of 1/10000, a tie going to the even one
Round4(a) ==
    IF a.k = "nan" THEN RNaN
    ELSE LET x == a.n * 10000
             fl == x \div a.d
             twice == 2 * (x - fl * a.d)
         IN  IF twice < a.d THEN Rat(fl, 10000)
             ELSE IF twice > a.d THEN Rat(fl + 1, 10000)
             ELSE IF fl % 2 = 0 THEN Rat(fl, 10000)
             ELSE Rat(fl + 1, 10000)

\* A cell of a history record that is not there.
NoCell == [k |-> "absent", n |-> 0, d |-> 1]

\* A DataFrame: whether it has the columns ticker, side, quantity and price,
\* and its rows [ticker, side, quantity, price]; a cell without a value holds
\* nan (quantity, price) or "nan" (side).
DataFrame(cols, rows) == [isNone |-> FALSE, cols |-> cols, rows |-> rows]

EmptyFrame == DataFrame(FALSE, <<>>)

\* df=None
NoFrame == [isNone |-> TRUE, cols |-> FALSE, rows |-> <<>>]

\* str.strip().upper() on the sides that occur
UpperSide(side) ==
    CASE side = "buy" -> "BUY"
      [] side = "sell" -> "SELL"
      [] side = "absent" -> "NAN"
      [] OTHER -> side

\* pd.read_json on a list of records: a column for every key some record
\* has, nan where a record has no value for it.
read_json(recs) ==
    DataFrame(/\ \E i \in DOMAIN recs : recs[i].side # "absent"
              /\ \E i \in DOMAIN recs : recs[i].quantity.k # "absent"
              /\ \E i \in DOMAIN recs : recs[i].price.k # "absent",
              [i \in DOMAIN recs |->
                  [ticker |-> recs[i].ticker,
                   side |-> recs[i].side,
                   quantity |-> IF recs[i].quantity.k = "absent" THEN RNaN
                                ELSE recs[i].quantity,
                   price |-> IF recs[i].price.k = "absent" THEN RNaN
                             ELSE recs[i].price]])

\* The test normalize_transactions_df keeps a row by, after the casing:
\* dropna, side.isin(["BUY", "SELL"]), quantity > 0 and price > 0.
KeptRow(row) ==
    /\ row.quantity.k # "nan"
    /\ row.price.k # "nan"
    /\ row.side \in {"BUY", "SELL"}
    /\ RGt(row.quantity, RInt(0))
    /\ RGt(row.price, RInt(0))

\* The rows that are kept, in order.
RECURSIVE KeptRows(_)
KeptRows(rows) ==
    IF rows = <<>> THEN <<>>
    ELSE IF KeptRow(Head(rows)) THEN <<Head(rows)>> \o KeptRows(Tail(rows))
    ELSE KeptRows(Tail(rows))

\* normalize_transactions_df(df)
normalize_transactions_df(df) ==
    IF ~df.cols THEN EmptyFrame
    ELSE LET cased == [i \in DOMAIN df.rows |->
                          [df.rows[i] EXCEPT !.ticker = Upper(Strip(@)),
                                             !.side = UpperSide(@)]]
         IN  DataFrame(TRUE, KeptRows(cased))

\* Mutant: a file that cannot be read makes the load raise.
load_transactions_df_raises(file) ==
    IF file.st = "missing" THEN Ret(EmptyFrame)
    ELSE IF file.st # "list" THEN [ok |-> FALSE, val |-> EmptyFrame, err |-> "ValueError"]
    ELSE IF file.recs = <<>> THEN Ret(EmptyFrame)
    ELSE Ret(normalize_transactions_df(read_json(file.recs)))

\* load_transactions_df(path): a missing file, and a file pd.read_json raises
\* on, give an empty DataFrame.
load_transactions_df(file) ==
    IF file.st = "missing" THEN Ret(EmptyFrame)
    ELSE IF file.st # "list" THEN Ret(EmptyFrame)
    ELSE IF file.recs = <<>> THEN Ret(EmptyFrame)
    ELSE Ret(normalize_transactions_df(read_json(file.recs)))

\* What the replay tracks: total_cost and total_qty per ticker, realized_pl.
NoReplay == [cost |-> EmptyDict, qty |-> EmptyDict, realized |-> RInt(0)]

\* Mutant: a SELL sells its whole quantity, whatever is tracked.
ReplayRow_oversell(s, row) ==
    LET ticker == row.ticker
        cost0 == Get(s.cost, ticker, RInt(0))
        qty0 == Get(s.qty, ticker, RInt(0))
    IN  IF row.side = "BUY"
        THEN [s EXCEPT !.cost = Put(s.cost, ticker, RAdd(cost0, RMul(row.quantity, row.price))),
                       !.qty = Put(s.qty, ticker, RAdd(qty0, row.quantity))]
        ELSE IF RLe(qty0, RInt(0))
        THEN [s EXCEPT !.cost = Put(s.cost, ticker, cost0),
                       !.qty = Put(s.qty, ticker, qty0)]
        ELSE LET avg_cost == RDiv(cost0, qty0)
                 sold == row.quantity
             IN  [cost |-> Put(s.cost, ticker, RSub(cost0, RMul(avg_cost, sold))),
                  qty |-> Put(s.qty, ticker, RSub(qty0, sold)),
                  realized |-> RAdd(s.realized, RMul(RSub(row.price, avg_cost), sold))]

\* One pass of the loop of compute_pl over the rows (analytics.py:117-143).
ReplayRow(s, row) ==
    LET ticker == row.ticker
        cost0 == Get(s.cost, ticker, RInt(0))
        qty0 == Get(s.qty, ticker, RInt(0))
    IN  IF row.side = "BUY"
        THEN [s EXCEPT !.cost = Put(s.cost, ticker, RAdd(cost0, RMul(row.quantity, row.price))),
                       !.qty = Put(s.qty, ticker, RAdd(qty0, row.quantity))]
        ELSE IF RLe(qty0, RInt(0))
        THEN [s EXCEPT !.cost = Put(s.cost, ticker, cost0),
                       !.qty = Put(s.qty, ticker, qty0)]
        ELSE LET avg_cost == RDiv(cost0, qty0)
                 sold == RMin(row.quantity, qty0)
             IN  [cost |-> Put(s.cost, ticker, RSub(cost0, RMul(avg_cost, sold))),
                  qty |-> Put(s.qty, ticker, RSub(qty0, sold)),
                  realized |-> RAdd(s.realized, RMul(RSub(row.price, avg_cost), sold))]

\* The loop over all rows, in order.
RECURSIVE Replay(_)
Replay(rows) ==
    IF rows = <<>> THEN NoReplay
    ELSE ReplayRow(Replay(SubSeq(rows, 1, Len(rows) - 1)), rows[Len(rows)])

\* latest_prices with upper-cased keys (analytics.py:109)
UpperKeys(latest_prices) ==
    [u \in {Upper(t) : t \in DOMAIN latest_prices} |->
        latest_prices[CHOOSE t \in DOMAIN latest_prices : Upper(t) = u]]

\* The tickers the second loop values: a position is left, and a latest
\* price is injected or the price fetcher returns one.
Valued(s, prices, fetch) ==
    {t \in DOMAIN s.qty :
        /\ ~RLe(s.qty[t], RInt(0))
        /\ t \in DOMAIN prices \cup DOMAIN fetch}

\* The tickers the price fetcher is called for.
Fetched(s, prices) ==
    {t \in DOMAIN s.qty : ~RLe(s.qty[t], RInt(0)) /\ t \notin DOMAIN prices}

\* Mutant: the fetched price is preferred to the injected one.
LatestOf_fetch_first(t, prices, fetch) == IF t \in DOMAIN fetch THEN fetch[t] ELSE prices[t]

LatestOf(t, prices, fetch) == IF t \in DOMAIN prices THEN prices[t] ELSE fetch[t]

\* u of a valued ticker (analytics.py:153-165)
UnrealizedOf(s, t, prices, fetch) ==
    RMul(RSub(LatestOf(t, prices, fetch), RDiv(s.cost[t], s.qty[t])), s.qty[t])

RECURSIVE SumUnrealized(_, _, _, _)
SumUnrealized(s, todo, prices, fetch) ==
    IF todo = {} THEN RInt(0)
    ELSE LET t == CHOOSE x \in todo : TRUE IN
         RAdd(UnrealizedOf(s, t, prices, fetch),
              SumUnrealized(s, todo \ {t}, prices, fetch))

\* The result for a history without data (analytics.py:99-106).
NoData ==
    [raised |-> "none", no_data |-> TRUE, realized_pl |-> RInt(0),
     unrealized_pl |-> RInt(0), total_pl |-> RInt(0), per_ticker |-> EmptyDict,
     fetched |-> {}]

\* compute_pl(df, tx_path=file, latest_prices=..., price_fetcher=...).  fetch
\* holds the prices the fetcher returns; it raises for every other ticker.
\* fetched is the set of tickers it was called for.
compute_pl(df, file, latest_prices, fetch) ==
    LET frame == IF df.isNone THEN load_transactions_df(file) ELSE Ret(df) IN
    IF ~frame.ok THEN [NoData EXCEPT !.raised = frame.err, !.no_data = FALSE]
    ELSE IF frame.val.rows = <<>> THEN NoData
    ELSE IF ~frame.val.cols
    THEN [NoData EXCEPT !.raised = "AttributeError", !.no_data = FALSE]
    ELSE LET prices == UpperKeys(latest_prices)
             s == Replay(frame.val.rows)
             valued == Valued(s, prices, fetch)
             unrealized_pl == SumUnrealized(s, valued, prices, fetch)
         IN  [raised |-> "none",
              no_data |-> FALSE,
              realized_pl |-> Round4(s.realized),
              unrealized_pl |-> Round4(unrealized_pl),
              total_pl |-> Round4(RAdd(s.realized, unrealized_pl)),
              per_ticker |->
                  [t \in valued |->
                      [qty |-> Round4(s.qty[t]),
                       avg_cost |-> Round4(RDiv(s.cost[t], s.qty[t])),
                       latest_price |-> Round4(LatestOf(t, prices, fetch)),
                       unrealized_pl |-> Round4(UnrealizedOf(s, t, prices, fetch))]],
              fetched |-> Fetched(s, prices)]

\* ------------------------------------------------------------- the system
VARIABLES
    cash,           \* Portfolio.cash
    holdings,       \* Portfolio.holdings
    snapshots,      \* the file SnapshotStore.path
    transactions,   \* the file TRANSACTIONS_FILE
    cfg,            \* which collaborators the TransactionManager was given
    trades,         \* number of ledger mutations so far
    lastTrade,      \* the latest call that mutated the ledger, and the ledger
                    \* before it
    disk,           \* the file at the ledger's location (portfolio.json)
    tmp,            \* the file portfolio.json.tmp next to it
    saving,         \* the save in progress, and how far it got
    loadres,        \* how the latest load ended
    lastOp,         \* the latest call of an operation of the ledger itself
                    \* (Portfolio.buy, sell, save, total_value) and how it ended
    pl,             \* the latest call of compute_pl and what it returned
    procs           \* the calls in progress when callers run concurrently:
                    \* each one's position and local variables

vars == <<cash, holdings, snapshots, transactions, cfg, trades, lastTrade,
         disk, tmp, saving, loadres, lastOp, pl, procs>>

\* The arguments callers pass.
Tickers ==
    {Str(<<"A">>), Str(<<"a", " ">>), Str(<<" ", "b">>), Str(<<" ">>), Str(<<>>), NotStr}

Amounts == {NonNum, Zero, Fin(1), Fin(2), NaN}

\* What the price provider may do.
Provided == {ProviderRaises, NonNum, Zero, Fin(3)}

\* What the collaborators do during one call.  A collaborator that the call
\* cannot reach (it is not configured, or an earlier step ends the call) is
\* given one fixed answer.
AllEnvs ==
    {e \in [market : {"open", "closed", "raise"},
            state : {"raise", "CLOSED"},
            price : Provided,
            snapshot : {"ok", "oserror", "raise"},
            txlog : {"ok", "oserror"}] :
        /\ e.market # "closed" => e.state = "raise"
        /\ e.market = "closed" => e.price = ProviderRaises
        /\ ~_get_price(e.price).ok => (e.snapshot = "ok" /\ e.txlog = "ok")
        /\ e.snapshot = "raise" => e.txlog = "ok"}

NoEnv ==
    [market |-> "open", state |-> "raise", price |-> ProviderRaises,
     snapshot |-> "ok", txlog |-> "ok"]

\* The engine configurations: which optional collaborators were injected.
Cfgs ==
    {c \in [market_open_check : BOOLEAN, market_state_provider : BOOLEAN,
            snapshot_store : BOOLEAN] :
        c.market_state_provider => c.market_open_check}

\* The calls an engine can receive: its configuration, the arguments and what
\* the collaborators do.
Calls ==
    {a : a \in
        {x \in [cfg : Cfgs, ticker : Tickers, amount : Amounts, env : AllEnvs] :
            /\ (~_validate_ticker(x.ticker).ok \/ ~_validate_quantity(x.amount).ok)
                   => x.env = NoEnv
            /\ ~x.cfg.market_open_check => x.env.market = "open"
            /\ ~x.cfg.market_state_provider => x.env.state = "raise"
            /\ ~x.cfg.snapshot_store => x.env.snapshot = "ok"}}

\* No save has begun, no load has been made.
NoSave == [kind |-> "none", pc |-> "idle", before |-> FileIn("missing")]

NoLoad == [who |-> "none", ok |-> TRUE, err |-> "none"]

\* compute_pl has not been called.
NoPL == [how |-> "none", rows |-> <<>>, res |-> NoData]

\* No operation of the ledger itself has been called.
NoOp ==
    [op |-> "none", ticker |-> <<>>, quantity |-> NonNum, price |-> NonNum,
     raised |-> "none", saved |-> "notcalled", cash0 |-> Zero,
     holdings0 |-> EmptyDict, value |-> NonNum]

\* No call is in progress.
NoProcs == [serial |-> TRUE, th |-> <<>>, credited |-> EmptyDict, held0 |-> EmptyDict, started |-> 0]

\* The ledger file is not touched.
StoreIdle ==
    /\ disk = FileIn("missing")
    /\ tmp = FileIn("missing")
    /\ saving = NoSave
    /\ loadres = NoLoad
    /\ lastOp = NoOp
    /\ pl = NoPL
    /\ procs = NoProcs

NoTrade ==
    [op |-> "none", outcome |-> "none", clean |-> <<>>, qty |-> NonNum,
     price |-> NonNum, cash0 |-> Zero, holdings0 |-> EmptyDict]

\* The ledgers the engine is started on: cash >= 0, holdings > 0.
InitLedgers == {[cash |-> Fin(6), holdings |-> [x \in {<<"A">>} |-> Fin(2)]]}

Init ==
    /\ \E l \in InitLedgers : cash = l.cash /\ holdings = l.holdings
    /\ snapshots = NoFile
    /\ transactions = NoHistory
    /\ cfg \in Cfgs
    /\ trades = 0
    /\ lastTrade = NoTrade
    /\ StoreIdle

\* The state after an engine call with result r.
Apply(op, r) ==
    /\ r.mutated => trades < MaxTrades
    /\ cash' = r.cash
    /\ holdings' = r.holdings
    /\ snapshots' = r.snapshots
    /\ transactions' = r.transactions
    /\ trades' = IF r.mutated THEN trades + 1 ELSE trades
    /\ lastTrade' =
         IF r.mutated
         THEN [op |-> op, outcome |-> r.outcome, clean |-> r.clean, qty |-> r.qty,
               price |-> r.price, cash0 |-> cash, holdings0 |-> holdings]
         ELSE lastTrade
    /\ UNCHANGED <<cfg, disk, tmp, saving, loadres, lastOp, pl, procs>>

\* The calls the engine can receive in the current state.
CallsHere == {a \in Calls : a.cfg = cfg}

\* The result of the call a made in the current state.
BuyOf(a) ==
    buy(cash, holdings, snapshots, transactions, cfg, a.ticker, a.amount, a.env)

SellOf(a) ==
    sell(cash, holdings, snapshots, transactions, cfg, a.ticker, a.amount, a.env)

Buy ==
    \E a \in Calls :
      /\ a.cfg = cfg
      /\ \E r \in {BuyOf(a)} : Apply("buy", r)

Sell ==
    \E a \in Calls :
      /\ a.cfg = cfg
      /\ \E r \in {SellOf(a)} : Apply("sell", r)

Next == Buy \/ Sell

Spec == Init /\ [][Next]_vars

\* ------------------------------------------- the transaction history alone
\* log_transaction called on a history file in any state.
MaxRecords == 3

\* The objects handed to log_transaction: records that carry a timestamp, and
\* a Transaction as the dataclass builds it.
StampedTxs ==
    {[kind |-> k, ticker |-> <<"A">>, quantity |-> q, price |-> Fin(3),
      gross_amount |-> FMul(q, Fin(3)), cash_after |-> Fin(6), timestamp |-> "utc"] :
        k \in {"buy", "sell"}, q \in {Fin(1), Fin(2), NaN}}

PlainTx ==
    Transaction([kind |-> "buy", ticker |-> <<"A">>, quantity |-> Fin(1), price |-> Fin(3),
                 gross_amount |-> Fin(3), cash_after |-> Fin(3)]).val

WriteIOs == {"ok", "oserror", "oserror_write"}

HistoryFiles ==
    {NoHistory, [st |-> "list", recs |-> <<>>], [st |-> "corrupt", recs |-> <<>>],
     [st |-> "unreadable", recs |-> <<>>], [st |-> "notlist", recs |-> <<>>]}

InitLog ==
    /\ cash = Fin(6)
    /\ holdings = EmptyDict
    /\ snapshots = NoFile
    /\ transactions \in HistoryFiles
    /\ cfg = [market_open_check |-> FALSE, market_state_provider |-> FALSE,
              snapshot_store |-> FALSE]
    /\ trades = 0
    /\ lastTrade = NoTrade
    /\ StoreIdle

\* One call of log_transaction.
Record ==
    \E io \in WriteIOs :
        \/ \E tx \in StampedTxs :
              /\ Len(transactions.recs) < MaxRecords
              /\ transactions' = log_transaction(transactions, tx, io).file
              /\ UNCHANGED <<cash, holdings, snapshots, cfg, trades, lastTrade, disk, tmp, saving, loadres, lastOp, pl, procs>>
        \/ /\ transactions' = log_transaction(transactions, PlainTx, io).file
           /\ UNCHANGED <<cash, holdings, snapshots, cfg, trades, lastTrade, disk, tmp, saving, loadres, lastOp, pl, procs>>

NextLog == Record

SpecLog == InitLog /\ [][NextLog]_vars

\* ------------------------------------------------ the ledger file alone
\* A program run holds a ledger in memory, saves it with Portfolio.save or
\* cli.save_portfolio, may die at any point of a save, and loads the file
\* with portfolio.load_portfolio or cli.load_portfolio.

\* The ledgers a run may hold: three that satisfy the ledger invariant with
\* normalized tickers, one with a ticker that is not normalized, one with the
\* NaN values a NaN quantity leaves.
StoreLedgers ==
    {[cash |-> Zero, holdings |-> [x \in {<<"A">>} |-> Fin(2)]],
     [cash |-> Fin(6), holdings |-> [x \in {<<"A">>, <<"B">>} |->
                                       IF x = <<"A">> THEN Fin(2) ELSE Fin(1)]],
     DefaultPortfolio,
     [cash |-> Fin(6), holdings |-> [x \in {<<"b">>} |-> Fin(1)]],
     [cash |-> NaN, holdings |-> [x \in {<<"A">>} |-> NaN]]}

\* A JSON list, and an object whose cash is no number.
ListDoc ==
    [top |-> "list", version |-> 0, cash |-> Absent,
     holdings |-> [isDict |-> FALSE, d |-> EmptyDict]]

BadCashDoc ==
    [top |-> "object", version |-> SCHEMA_VERSION, cash |-> NonNum,
     holdings |-> [isDict |-> TRUE, d |-> EmptyDict]]

\* What the run may find at the ledger's location: nothing, something that is
\* no ledger file, or a file an earlier run saved.
\* Objects that are no valid ledger file: a negative cash, a negative
\* quantity, a schema version that is not SCHEMA_VERSION.
InvalidLedgers ==
    {[cash |-> Fin(-5), holdings |-> [x \in {<<"A">>} |-> Fin(2)]],
     [cash |-> Fin(6), holdings |-> [x \in {<<"A">>} |-> Fin(-1)]]}

OtherVersionDoc ==
    [top |-> "object", version |-> SCHEMA_VERSION + 1, cash |-> Fin(6),
     holdings |-> [isDict |-> TRUE, d |-> [x \in {<<"A">>} |-> Fin(2)]]]

InitDisks ==
    {FileIn("missing"), FileIn("dir"), FileIn("unreadable"), FileIn("notjson"),
     FileOf(ListDoc), FileOf(BadCashDoc), FileOf(OtherVersionDoc)}
    \cup {FileOf(SavePayload(l.cash, l.holdings)) : l \in InvalidLedgers}
    \cup {FileOf(CliPayload(l.cash, l.holdings)) : l \in InvalidLedgers}
    \cup {FileOf(SavePayload(l.cash, l.holdings)) : l \in StoreLedgers}
    \cup {FileOf(CliPayload(l.cash, l.holdings)) : l \in StoreLedgers}

InitStore ==
    /\ \E l \in StoreLedgers : cash = l.cash /\ holdings = l.holdings
    /\ snapshots = NoFile
    /\ transactions = NoHistory
    /\ cfg = [market_open_check |-> FALSE, market_state_provider |-> FALSE,
              snapshot_store |-> FALSE]
    /\ trades = 0
    /\ lastTrade = NoTrade
    /\ disk \in InitDisks
    /\ tmp = FileIn("missing")
    /\ saving = NoSave
    /\ loadres = NoLoad
    /\ lastOp = NoOp
    /\ pl = NoPL
    /\ procs = NoProcs

EngineIdle == UNCHANGED <<snapshots, transactions, cfg, trades, lastTrade, lastOp, pl, procs>>

\* No save is running: none has begun, or the last one returned, raised, or
\* died with its process.
SaveOver ==
    saving.pc \in {"idle", "returned_True", "returned_False", "returned",
                   "raised_FileError", "crashed"}

\* Portfolio.save ("atomic") or cli.save_portfolio ("plain") is called.
SaveBegin ==
    /\ SaveOver
    /\ \E kind \in {"atomic", "plain"} :
          saving' = [kind |-> kind, pc |-> "begun", before |-> disk]
    /\ UNCHANGED <<cash, holdings, disk, tmp, loadres>>
    /\ EngineIdle

\* _atomic_write_json: tmp_path.write_text opens the temporary file, which
\* truncates it ...
TmpTruncate ==
    /\ saving.kind = "atomic" /\ saving.pc = "begun"
    /\ tmp' = FileIn("torn")
    /\ saving' = [saving EXCEPT !.pc = "tmp_open"]
    /\ UNCHANGED <<cash, holdings, disk, loadres>>
    /\ EngineIdle

\* ... and writes the payload;
TmpWrite ==
    /\ saving.kind = "atomic" /\ saving.pc = "tmp_open"
    /\ tmp' = FileOf(SavePayload(cash, holdings))
    /\ saving' = [saving EXCEPT !.pc = "tmp_written"]
    /\ UNCHANGED <<cash, holdings, disk, loadres>>
    /\ EngineIdle

\* tmp_path.replace(path) renames it over the target in one step (OSError
\* when the target is a directory); save returns True, or False on OSError.
Replace ==
    /\ saving.kind = "atomic" /\ saving.pc = "tmp_written"
    /\ IF disk.st = "dir"
       THEN /\ saving' = [saving EXCEPT !.pc = "returned_False"]
            /\ UNCHANGED <<disk, tmp>>
       ELSE /\ disk' = tmp
            /\ tmp' = FileIn("missing")
            /\ saving' = [saving EXCEPT !.pc = "returned_True"]
    /\ UNCHANGED <<cash, holdings, loadres>>
    /\ EngineIdle

\* cli.save_portfolio: open(path, "w") truncates the target (OSError when it
\* cannot be opened, raised as FileError) ...
PlainTruncate ==
    /\ saving.kind = "plain" /\ saving.pc = "begun"
    /\ IF disk.st \in {"dir", "unreadable"}
       THEN /\ saving' = [saving EXCEPT !.pc = "raised_FileError"]
            /\ UNCHANGED disk
       ELSE /\ disk' = FileIn("torn")
            /\ saving' = [saving EXCEPT !.pc = "file_open"]
    /\ UNCHANGED <<cash, holdings, tmp, loadres>>
    /\ EngineIdle

\* ... and json.dump writes to_dict() into it.
PlainDump ==
    /\ saving.kind = "plain" /\ saving.pc = "file_open"
    /\ disk' = FileOf(CliPayload(cash, holdings))
    /\ saving' = [saving EXCEPT !.pc = "returned"]
    /\ UNCHANGED <<cash, holdings, tmp, loadres>>
    /\ EngineIdle

\* A write raises OSError (a full disk): Portfolio.save returns False,
\* cli.save_portfolio raises FileError; the files stay as the write left them.
WriteFails ==
    /\ saving.pc \in {"begun", "tmp_open", "file_open"}
    /\ saving' = [saving EXCEPT !.pc = IF saving.kind = "atomic"
                                       THEN "returned_False" ELSE "raised_FileError"]
    /\ UNCHANGED <<cash, holdings, disk, tmp, loadres>>
    /\ EngineIdle

\* The process dies in the middle of a save.
Crash ==
    /\ saving.pc \in {"begun", "tmp_open", "tmp_written", "file_open"}
    /\ saving' = [saving EXCEPT !.pc = "crashed"]
    /\ UNCHANGED <<cash, holdings, disk, tmp, loadres>>
    /\ EngineIdle

\* The state after a load by who with result r: the run holds the ledger
\* returned, if one is.
Load(who, r) ==
    /\ SaveOver
    /\ loadres' = [who |-> who, ok |-> r.ok, err |-> r.err]
    /\ cash' = IF r.ok THEN r.val.cash ELSE cash
    /\ holdings' = IF r.ok THEN r.val.holdings ELSE holdings
    /\ saving' = NoSave
    /\ UNCHANGED <<disk, tmp>>
    /\ EngineIdle

LoadPortfolio == Load("portfolio", load_portfolio(disk))

CliLoadPortfolio == Load("cli", cli_load_portfolio(disk))

NextStore ==
    \/ SaveBegin
    \/ TmpTruncate
    \/ TmpWrite
    \/ Replace
    \/ PlainTruncate
    \/ PlainDump
    \/ WriteFails
    \/ Crash
    \/ LoadPortfolio
    \/ CliLoadPortfolio

SpecStore == InitStore /\ [][NextStore]_vars

\* ------------------------------------------- the ledger's operations alone
\* Portfolio.buy, Portfolio.sell, Portfolio.save and Portfolio.total_value
\* called directly on a ledger, with any numbers as quantity and price.
MaxLedgerOps == 2

\* The ledgers the calls start on.
OpLedgers ==
    {[cash |-> Fin(4), holdings |-> EmptyDict],
     [cash |-> Fin(4), holdings |-> [x \in {<<"A">>} |-> Fin(2)]]}

OpTickers == {<<"A">>, <<"B">>}

OpQuantities == {Fin(-1), Zero, Fin(1), Fin(2), NaN}

OpPrices == {Fin(-1), Zero, Fin(3)}

SaveIOs == {"ok", "oserror_open", "oserror_write"}

\* The price maps handed to total_value: prices of some of the tickers.
PriceMaps ==
    UNION {[d -> {Fin(3), Fin(5)}] : d \in SUBSET OpTickers}

InitLedger ==
    /\ \E l \in OpLedgers : cash = l.cash /\ holdings = l.holdings
    /\ snapshots = NoFile
    /\ transactions = NoHistory
    /\ cfg = [market_open_check |-> FALSE, market_state_provider |-> FALSE,
              snapshot_store |-> FALSE]
    /\ trades = 0
    /\ lastTrade = NoTrade
    /\ disk \in {FileIn("missing"), FileIn("dir")}
    /\ tmp = FileIn("missing")
    /\ saving = NoSave
    /\ loadres = NoLoad
    /\ lastOp = NoOp
    /\ pl = NoPL
    /\ procs = NoProcs

\* The state after the call op(ticker, quantity, price) with result r.
ApplyOp(op, ticker, quantity, price, r) ==
    /\ trades < MaxLedgerOps
    /\ trades' = trades + 1
    /\ cash' = r.cash
    /\ holdings' = r.holdings
    /\ disk' = r.disk
    /\ tmp' = r.tmp
    /\ lastOp' = [op |-> op, ticker |-> ticker, quantity |-> quantity,
                  price |-> price, raised |-> r.raised, saved |-> r.saved,
                  cash0 |-> cash, holdings0 |-> holdings, value |-> NonNum]
    /\ UNCHANGED <<snapshots, transactions, cfg, lastTrade, saving, loadres, pl, procs>>

PortfolioBuy ==
    \E t \in OpTickers, q \in OpQuantities, p \in OpPrices, io \in SaveIOs :
        ApplyOp("buy", t, q, p, Portfolio_buy(cash, holdings, disk, tmp, t, q, p, io))

PortfolioSell ==
    \E t \in OpTickers, q \in OpQuantities, p \in OpPrices, io \in SaveIOs :
        ApplyOp("sell", t, q, p, Portfolio_sell(cash, holdings, disk, tmp, t, q, p, io))

\* Portfolio.save() called by itself.
PortfolioSave ==
    \E io \in SaveIOs :
        LET s == Portfolio_save(cash, holdings, disk, tmp, io) IN
        ApplyOp("save", <<>>, NonNum, NonNum,
                LedgerResult("none", cash, holdings, s.disk, s.tmp,
                             IF s.ret THEN "True" ELSE "False"))

\* Portfolio.total_value(price_map) computes a value and assigns nothing.
TotalValue ==
    \E pm \in PriceMaps :
        LET r == total_value(cash, holdings, pm) IN
        /\ lastOp' = [op |-> "total_value", ticker |-> <<>>, quantity |-> NonNum,
                      price |-> NonNum,
                      raised |-> r.err, saved |-> "notcalled", cash0 |-> cash,
                      holdings0 |-> holdings, value |-> r.val]
        /\ UNCHANGED <<cash, holdings, snapshots, transactions, cfg, trades,
                       lastTrade, disk, tmp, saving, loadres, pl, procs>>

NextLedger == PortfolioBuy \/ PortfolioSell \/ PortfolioSave \/ TotalValue

SpecLedger == InitLedger /\ [][NextLedger]_vars

\* ------------------------------------------------------- analytics alone
\* compute_pl called on the transaction history: on the file, or on a
\* DataFrame of the file's records that the caller passes in.
MaxRows == 3

Row(ticker, side, quantity, price) ==
    [ticker |-> ticker, side |-> side, quantity |-> quantity, price |-> price]

\* Records as log_transaction writes them (and one with a lower-case side,
\* one with a ticker that is not normalized).
GoodRows ==
    {Row(<<"A">>, "BUY", RInt(1), RInt(1)),
     Row(<<"A">>, "BUY", RInt(2), RInt(3)),
     Row(<<"A">>, "SELL", RInt(1), RInt(3)),
     Row(<<"A">>, "SELL", RInt(3), RInt(1)),
     Row(<<"A">>, "buy", RInt(1), RInt(3)),
     Row(<<" ", "b">>, "BUY", RInt(1), RInt(3))}

\* Records that are malformed: a side that is neither BUY nor SELL, a
\* quantity or price <= 0, a field that is missing.
BadRows ==
    {Row(<<"A">>, "HOLD", RInt(1), RInt(3)),
     Row(<<"A">>, "BUY", RInt(-1), RInt(1)),
     Row(<<"A">>, "SELL", RInt(1), RInt(0)),
     Row(<<"A">>, "BUY", NoCell, RInt(1)),
     Row(<<"A">>, "absent", RInt(1), RInt(1))}

\* The latest prices a caller injects, and what the price fetcher can return.
LatestPrices ==
    {EmptyDict, [x \in {<<"a">>} |-> RInt(4)], [x \in {<<"A">>, <<"B">>} |-> RInt(2)]}

Fetches == {EmptyDict, [x \in {<<"A">>} |-> RInt(3)]}

PLFiles ==
    {NoHistory, [st |-> "list", recs |-> <<>>], [st |-> "corrupt", recs |-> <<>>],
     [st |-> "unreadable", recs |-> <<>>], [st |-> "notlist", recs |-> <<>>]}

InitPL ==
    /\ cash = Fin(6)
    /\ holdings = EmptyDict
    /\ snapshots = NoFile
    /\ transactions \in PLFiles
    /\ cfg = [market_open_check |-> FALSE, market_state_provider |-> FALSE,
              snapshot_store |-> FALSE]
    /\ trades = 0
    /\ lastTrade = NoTrade
    /\ StoreIdle

PLIdle ==
    UNCHANGED <<cash, holdings, snapshots, cfg, trades, lastTrade, disk, tmp,
                saving, loadres, lastOp, procs>>

\* A record is added to the history file.
AddRecord ==
    /\ transactions.st \in {"missing", "list"}
    /\ Len(transactions.recs) < MaxRows
    /\ \E row \in GoodRows \cup BadRows :
          transactions' = [st |-> "list", recs |-> Append(transactions.recs, row)]
    /\ UNCHANGED pl
    /\ PLIdle

\* The DataFrame a caller builds of the records of the history.
FrameOfFile ==
    IF transactions.st = "list" /\ transactions.recs # <<>>
    THEN read_json(transactions.recs) ELSE EmptyFrame

\* compute_pl() on the history file
ComputeFromFile ==
    /\ \E lp \in LatestPrices, f \in Fetches :
          pl' = [how |-> "file", rows |-> transactions.recs,
                 res |-> compute_pl(NoFrame, transactions, lp, f)]
    /\ UNCHANGED transactions
    /\ PLIdle

\* compute_pl(df) on a DataFrame passed in
ComputeDirect ==
    /\ \E lp \in LatestPrices, f \in Fetches :
          pl' = [how |-> "direct", rows |-> transactions.recs,
                 res |-> compute_pl(FrameOfFile, transactions, lp, f)]
    /\ UNCHANGED transactions
    /\ PLIdle

NextPL == AddRecord \/ ComputeFromFile \/ ComputeDirect

SpecPL == InitPL /\ [][NextPL]_vars

\* ------------------------------------------- sell, step by step (threads)
\* Two threads call sell on one TransactionManager.  A thread runs the steps
\* of sell one at a time: the checks up to the holdings check (lines 144-154),
\* the price acquisition (156), the mutation and what follows it (157-199);
\* between two steps of one thread the other thread may run.  With
\* procs.serial the callers hold a lock around each call.
MaxCalls == 3

RaceThreads == {1, 2}

\* The local variables of a thread that is not inside sell.
Outside == [pc |-> "idle", clean |-> <<>>, qty |-> NonNum, owned |-> NonNum, price |-> NonNum]

\* sell, lines 144-154: the ticker, the quantity, the market gate and the
\* holdings check, which reads the quantity owned.
sell_checks(holdings_, cfg_, ticker, amount, env) ==
    LET t == _validate_ticker(ticker)
        q == _validate_quantity(amount)
        m == _ensure_market_open(cfg_, env)
        owned == Get(holdings_, t.val, Zero)
    IN  IF ~t.ok THEN [ok |-> FALSE, err |-> t.err, th |-> Outside]
        ELSE IF ~q.ok THEN [ok |-> FALSE, err |-> q.err, th |-> Outside]
        ELSE IF m.blocked THEN [ok |-> FALSE, err |-> "MarketClosedError", th |-> Outside]
        ELSE IF InsufficientHoldings(owned, q.val)
        THEN [ok |-> FALSE, err |-> "InsufficientHoldingsError", th |-> Outside]
        ELSE [ok |-> TRUE, err |-> "none",
              th |-> [pc |-> "price", clean |-> t.val, qty |-> q.val,
                      owned |-> owned, price |-> NonNum]]

InitRace ==
    /\ \E l \in InitLedgers :
          /\ cash = l.cash
          /\ holdings = l.holdings
          /\ \E b \in BOOLEAN :
                procs = [serial |-> b, th |-> [i \in RaceThreads |-> Outside],
                         credited |-> EmptyDict, held0 |-> l.holdings, started |-> 0]
    /\ snapshots = NoFile
    /\ transactions = NoHistory
    /\ cfg \in Cfgs
    /\ trades = 0
    /\ lastTrade = NoTrade
    /\ disk = FileIn("missing")
    /\ tmp = FileIn("missing")
    /\ saving = NoSave
    /\ loadres = NoLoad
    /\ lastOp = NoOp
    /\ pl = NoPL

RaceIdle == UNCHANGED <<cfg, trades, lastTrade, disk, tmp, saving, loadres, lastOp, pl>>

\* Thread i enters sell and runs it up to the holdings check.
SellChecks(i) ==
    /\ procs.th[i].pc = "idle"
    /\ procs.started < MaxCalls
    /\ procs.serial => \A j \in RaceThreads : procs.th[j].pc = "idle"
    /\ \E a \in CallsHere :
          LET c == sell_checks(holdings, cfg, a.ticker, a.amount, a.env) IN
          procs' = [procs EXCEPT !.th[i] = c.th, !.started = @ + 1]
    /\ UNCHANGED <<cash, holdings, snapshots, transactions>>
    /\ RaceIdle

\* Thread i acquires the price (line 156).
SellPrice(i) ==
    /\ procs.th[i].pc = "price"
    /\ \E provided \in Provided :
          LET p == _get_price(provided) IN
          procs' = [procs EXCEPT !.th[i] =
                       IF p.ok THEN [@ EXCEPT !.pc = "mutate", !.price = p.val]
                       ELSE Outside]
    /\ UNCHANGED <<cash, holdings, snapshots, transactions>>
    /\ RaceIdle

\* Thread i mutates the ledger with the quantity it read at the holdings
\* check, writes the row and builds the record (lines 157-199).
SellMutate(i) ==
    /\ procs.th[i].pc = "mutate"
    /\ LET me == procs.th[i]
           total_proceeds == FMul(me.qty, me.price)
           after == SellMutation(cash, holdings, me.clean, me.owned, me.qty,
                                 total_proceeds)
       IN  \E e \in AllEnvs :
             /\ e.market = "open"
             /\ e.price = me.price
             /\ ~cfg.snapshot_store => e.snapshot = "ok"
             /\ LET r == AfterMutation("sell", "SELL", after.cash, after.holdings,
                                       snapshots, transactions, cfg, <<>>, me.clean,
                                       me.qty, me.price, total_proceeds, e)
                IN  /\ cash' = r.cash
                    /\ holdings' = r.holdings
                    /\ snapshots' = r.snapshots
                    /\ transactions' = r.transactions
             /\ procs' = [procs EXCEPT
                             !.th[i] = Outside,
                             !.credited = Put(@, me.clean,
                                              FAdd(Get(@, me.clean, Zero), me.qty))]
    /\ RaceIdle

NextRace == \E i \in RaceThreads : SellChecks(i) \/ SellPrice(i) \/ SellMutate(i)

SpecRace == InitRace /\ [][NextRace]_vars

\* ------------------------------------------------ the commands buy and sell
\* cli.cmd_buy and cli.cmd_sell: load the ledger file, trade through a
\* TransactionManager with a SnapshotStore and no market check, save the
\* ledger file; every exception is answered with exit code 1.
MaxCommands == 2

\* TransactionManager(portfolio=portfolio, snapshot_store=SnapshotStore(), logger=log)
CliCfg ==
    [market_open_check |-> FALSE, market_state_provider |-> FALSE,
     snapshot_store |-> TRUE]

\* cli.save_portfolio(portfolio) as one call: open(path, "w") and json.dump;
\* OSError is raised on as FileError.  io is what the file system does.
save_portfolio(cash_, holdings_, disk_, io) ==
    IF disk_.st \in {"dir", "unreadable"} \/ io = "oserror_open"
    THEN [raised |-> TRUE, disk |-> disk_]
    ELSE IF io = "oserror_write"
    THEN [raised |-> TRUE, disk |-> FileIn("torn")]
    ELSE [raised |-> FALSE, disk |-> FileOf(CliPayload(cash_, holdings_))]

\* What a command leaves: its exit code, the three files, whether the engine
\* mutated the ledger it was given, that ledger as loaded (cash0, holdings0)
\* and as the command left it in memory.
Exit(code, disk_, snapshots_, transactions_, traded, l, cash_, holdings_) ==
    [code |-> code, disk |-> disk_, snapshots |-> snapshots_,
     transactions |-> transactions_, traded |-> traded,
     cash0 |-> l.cash, holdings0 |-> l.holdings,
     cash |-> cash_, holdings |-> holdings_]

\* The command after tm.buy / tm.sell ended with r: an exception skips
\* save_portfolio and is answered with 1; otherwise the ledger is saved.
AfterEngine(r, l, disk_, io) ==
    IF r.outcome # "returned"
    THEN Exit(1, disk_, r.snapshots, r.transactions, r.mutated, l, r.cash, r.holdings)
    ELSE LET saved == save_portfolio(r.cash, r.holdings, disk_, io) IN
         Exit(IF saved.raised THEN 1 ELSE 0, saved.disk, r.snapshots,
              r.transactions, r.mutated, l, r.cash, r.holdings)

\* cli.cmd_buy(ticker_raw, quantity)
cmd_buy(disk_, snapshots_, transactions_, ticker_raw, quantity, env, io) ==
    LET ticker == validate_ticker(ticker_raw)
        valid_quantity == validate_positive_number(quantity)
        portfolio == cli_load_portfolio(disk_)
        r == buy(portfolio.val.cash, portfolio.val.holdings, snapshots_,
                 transactions_, CliCfg, Str(ticker.val), valid_quantity.val, env)
    IN  IF ~ticker.ok \/ ~valid_quantity.ok \/ ~portfolio.ok
        THEN Exit(1, disk_, snapshots_, transactions_, FALSE, portfolio.val,
                  portfolio.val.cash, portfolio.val.holdings)
        ELSE AfterEngine(r, portfolio.val, disk_, io)

\* cli.cmd_sell(ticker_raw, quantity)
cmd_sell(disk_, snapshots_, transactions_, ticker_raw, quantity, env, io) ==
    LET ticker == validate_ticker(ticker_raw)
        valid_quantity == validate_positive_number(quantity)
        portfolio == cli_load_portfolio(disk_)
        r == sell(portfolio.val.cash, portfolio.val.holdings, snapshots_,
                  transactions_, CliCfg, Str(ticker.val), valid_quantity.val, env)
    IN  IF ~ticker.ok \/ ~valid_quantity.ok \/ ~portfolio.ok
        THEN Exit(1, disk_, snapshots_, transactions_, FALSE, portfolio.val,
                  portfolio.val.cash, portfolio.val.holdings)
        ELSE AfterEngine(r, portfolio.val, disk_, io)

\* The arguments of a command (argparse hands over a string and a float),
\* and what the collaborators do during it.
CmdArgs ==
    {c \in [ticker : {<<"A">>, <<"a", " ">>, <<" ", "b">>, <<" ">>},
            amount : {Zero, Fin(1), Fin(2), NaN},
            env : {e \in AllEnvs : e.market = "open"},
            io : {"ok", "oserror_open", "oserror_write"}] :
        (~validate_ticker(c.ticker).ok \/ ~validate_positive_number(c.amount).ok)
            => (c.env = NoEnv /\ c.io = "ok")}

\* What the command finds at the ledger's location.
CliDisks ==
    {FileIn("missing"), FileIn("dir"), FileOf(ListDoc),
     FileOf(CliPayload(Fin(6), [x \in {<<"A">>} |-> Fin(2)]))}

InitCli ==
    /\ cash = Fin(DefaultCash)
    /\ holdings = EmptyDict
    /\ snapshots = NoFile
    /\ transactions = NoHistory
    /\ cfg = CliCfg
    /\ trades = 0
    /\ lastTrade = NoTrade
    /\ disk \in CliDisks
    /\ tmp = FileIn("missing")
    /\ saving = NoSave
    /\ loadres = NoLoad
    /\ lastOp = NoOp
    /\ pl = NoPL
    /\ procs = NoProcs

\* The state after a command that left x.
Command(op, c, x) ==
    /\ trades < MaxCommands
    /\ trades' = trades + 1
    /\ disk' = x.disk
    /\ snapshots' = x.snapshots
    /\ transactions' = x.transactions
    /\ lastOp' = [op |-> op, ticker |-> c.ticker, quantity |-> c.amount, left |-> x,
                  disk0 |-> disk]
    /\ UNCHANGED <<cash, holdings, cfg, lastTrade, tmp, saving, loadres, pl, procs>>

CmdBuy ==
    \E c \in CmdArgs :
        Command("cmd_buy", c,
                cmd_buy(disk, snapshots, transactions, c.ticker, c.amount, c.env, c.io))

CmdSell ==
    \E c \in CmdArgs :
        Command("cmd_sell", c,
                cmd_sell(disk, snapshots, transactions, c.ticker, c.amount, c.env, c.io))

NextCli == CmdBuy \/ CmdSell

SpecCli == InitCli /\ [][NextCli]_vars

\* ------------------------------------------------- the simulation loop
\* main.dispatch_line and main.safe_dispatch.  A line is modelled by its
\* tokens after shlex.split: the command word, the number of tokens, and the
\* ticker and quantity tokens where there are any; "unbalanced" is a line
\* shlex.split rejects with ValueError, "empty" one without tokens.  deps is
\* what the injected collaborators do while the line is handled: fetch is
\* what deps.fetch_quote does for the command quote, env what the engine's
\* collaborators do, io what the file system does for deps.save_pf.
MaxLines == 2

\* tokens[0].lower() on the words that occur
Lower(word) ==
    CASE word = "EXIT" -> "exit"
      [] word = "Quit" -> "quit"
      [] OTHER -> word

\* What a line leaves: the exception that left dispatch_line ("none" when it
\* returned), the value returned, the ledger in memory, the files, whether
\* the engine mutated the ledger and what became of deps.save_pf.
Left(err, ret, cash_, holdings_, snapshots_, transactions_, disk_, traded, saved) ==
    [err |-> err, ret |-> ret, cash |-> cash_, holdings |-> holdings_,
     snapshots |-> snapshots_, transactions |-> transactions_, disk |-> disk_,
     traded |-> traded, saved |-> saved]

\* dispatch_line, the branches buy and sell after the engine call ended with
\* r: an exception leaves the function, otherwise deps.save_pf is called.
AfterTrade(r, disk_, io) ==
    IF r.outcome # "returned"
    THEN Left(r.outcome, TRUE, r.cash, r.holdings, r.snapshots, r.transactions,
              disk_, r.mutated, "notcalled")
    ELSE LET saved == save_portfolio(r.cash, r.holdings, disk_, io) IN
         Left(IF saved.raised THEN "FileError" ELSE "none", TRUE, r.cash,
              r.holdings, r.snapshots, r.transactions, saved.disk, r.mutated,
              IF saved.raised THEN "raised" ELSE "ok")

\* dispatch_line(line, state, deps)
dispatch_line(line, cash_, holdings_, snapshots_, transactions_, disk_, deps) ==
    LET same(err, ret) == Left(err, ret, cash_, holdings_, snapshots_,
                               transactions_, disk_, FALSE, "notcalled")
        cmd == Lower(line.word)
        ticker == validate_ticker(line.ticker)
        qty == line.qty
    IN  IF line.word = "unbalanced" THEN same("ValueError", TRUE)
        ELSE IF line.word = "empty" THEN same("none", TRUE)
        ELSE IF cmd \in {"exit", "quit"} THEN same("none", FALSE)
        ELSE IF cmd \in {"help", "?", "portfolio"} THEN same("none", TRUE)
        ELSE IF cmd = "quote"
        THEN IF line.n # 2 \/ ~ticker.ok THEN same("ValidationError", TRUE)
             ELSE IF deps.fetch = "ok" THEN same("none", TRUE)
             ELSE same(deps.fetch, TRUE)
        ELSE IF cmd \in {"buy", "sell"}
        THEN IF line.n # 3 \/ ~ticker.ok THEN same("ValidationError", TRUE)
             ELSE IF qty.k = "nonnum" \/ FLe(qty, Zero) THEN same("ValidationError", TRUE)
             ELSE CHOOSE z \in
                    {AfterTrade(r, disk_, deps.io) :
                       r \in {IF cmd = "buy"
                              THEN buy(cash_, holdings_, snapshots_, transactions_,
                                       CliCfg, Str(ticker.val), qty, deps.env)
                              ELSE sell(cash_, holdings_, snapshots_, transactions_,
                                        CliCfg, Str(ticker.val), qty, deps.env)}} : TRUE
        ELSE same("none", TRUE)

\* The exceptions that are TransactionError or one of its subclasses.
TransactionErrors ==
    {"TransactionError", "InvalidTickerError", "InvalidQuantityError",
     "InvalidPriceError", "PriceFetchError", "MarketClosedError",
     "InsufficientFundsError", "InsufficientHoldingsError"}

\* safe_dispatch, the except clauses: x is what dispatch_line left.  Every
\* exception (of class Exception) is answered with a message and True;
\* escaped is the exception that leaves safe_dispatch.
Caught(x) ==
    [left |-> x, escaped |-> "none",
     message |-> CASE x.err = "none" -> "none"
                   [] x.err = "ValidationError" -> "Input error"
                   [] x.err = "FileError" -> "File error"
                   [] x.err = "QuoteFetchError" -> "Market error"
                   [] x.err \in TransactionErrors -> "Transaction error"
                   [] OTHER -> "Unexpected error occurred.",
     ret |-> IF x.err = "none" THEN x.ret ELSE TRUE]

\* safe_dispatch(line, state, deps)
safe_dispatch(line, cash_, holdings_, snapshots_, transactions_, disk_, deps) ==
    CHOOSE z \in {Caught(x) : x \in {dispatch_line(line, cash_, holdings_, snapshots_,
                                                    transactions_, disk_, deps)}} : TRUE

\* The lines typed and what the collaborators do.
Lines ==
    {l \in [word : {"unbalanced", "empty", "exit", "Quit", "help", "portfolio",
                    "quote", "buy", "sell", "hold"},
            n : {2, 3},
            ticker : {<<"A">>, <<" ">>},
            qty : {NonNum, Zero, Fin(1), Fin(3), NaN}] :
        /\ l.word \notin {"quote", "buy", "sell"} =>
               (l.n = 2 /\ l.ticker = <<"A">> /\ l.qty = NonNum)
        /\ l.word = "quote" => l.qty = NonNum
        /\ (l.word \in {"buy", "sell"} /\ l.n = 2) => l.qty = NonNum}

Deps ==
    [fetch : {"ok", "QuoteFetchError", "KeyError"},
     env : {e \in AllEnvs : e.market = "open" /\ e.snapshot # "oserror" /\ e.txlog = "ok"},
     io : {"ok", "oserror_open"}]

\* The collaborators that the line l reaches.
DepsOf(l) ==
    {d \in Deps :
        /\ Lower(l.word) # "quote" => d.fetch = "ok"
        /\ Lower(l.word) \notin {"buy", "sell"} => d.env = NoEnv
        /\ Lower(l.word) \notin {"buy", "sell", "exit", "quit"} => d.io = "ok"}

InitLoop ==
    /\ cash = Fin(6)
    /\ holdings = [x \in {<<"A">>} |-> Fin(2)]
    /\ snapshots = NoFile
    /\ transactions = NoHistory
    /\ cfg = CliCfg
    /\ trades = 0
    /\ lastTrade = NoTrade
    /\ disk \in {FileIn("missing"), FileOf(CliPayload(Fin(6), [x \in {<<"A">>} |-> Fin(2)]))}
    /\ tmp = FileIn("missing")
    /\ saving = NoSave
    /\ loadres = NoLoad
    /\ lastOp = NoOp
    /\ pl = NoPL
    /\ procs = NoProcs

\* One pass of the loop of run_simulation: it reads a line and hands it to
\* safe_dispatch; when the answer is False it saves the ledger (a FileError
\* is caught) and returns.
Dispatch ==
    /\ trades < MaxLines
    /\ lastOp.op = "safe_dispatch" => lastOp.ret
    /\ \E l \in Lines : \E d \in DepsOf(l) :
          \E x \in {safe_dispatch(l, cash, holdings, snapshots, transactions, disk, d)} :
          /\ cash' = x.left.cash
          /\ holdings' = x.left.holdings
          /\ snapshots' = x.left.snapshots
          /\ transactions' = x.left.transactions
          /\ disk' = IF x.ret THEN x.left.disk
                      ELSE save_portfolio(x.left.cash, x.left.holdings, x.left.disk, d.io).disk
          /\ lastOp' = [op |-> "safe_dispatch", word |-> l.word, ret |-> x.ret,
                        escaped |-> x.escaped, message |-> x.message,
                        traded |-> x.left.traded, saved |-> x.left.saved,
                        cash0 |-> cash, holdings0 |-> holdings]
    /\ trades' = trades + 1
    /\ UNCHANGED <<cfg, lastTrade, tmp, saving, loadres, pl, procs>>

NextLoop == Dispatch

SpecLoop == InitLoop /\ [][NextLoop]_vars

\* ------------------------------------------------- the HTTP trade endpoint
\* api_server.execute_trade, handled by two threads of the server.  A handler
\* runs in two steps: up to and including load_portfolio() (lines 239-258),
\* and from the engine call to the response (260-308); between the two the
\* other handler may run.  Nothing in the endpoint locks the ledger file.
Handlers == {1, 2}

\* A handler that has no request.
NoRequest ==
    [pc |-> "idle", action |-> "none", ticker |-> <<>>, quantity |-> NonNum,
     price |-> NonNum, cash |-> Zero, holdings |-> EmptyDict, status |-> 0,
     traded |-> FALSE, traded_at |-> NonNum, total |-> NonNum, cash_after |-> NonNum]

\* The handler's answer with HTTP status code.
Answered(h, code) == [h EXCEPT !.pc = "done", !.status = code]

\* execute_trade, lines 239-258: the fields of the request (the ticker is
\* upper-cased, not stripped), the quote, the limit price, and the ledger
\* file read.  quoted is what fetch_latest_quote does here.
execute_trade_load(data, quoted, disk_) ==
    LET ticker == Upper(data.ticker)
        quantity == data.quantity
        portfolio == cli_load_portfolio(disk_)
        price == IF data.order_type = "limit" /\ data.limit_price.k = "fin"
                    /\ data.limit_price # Zero
                 THEN data.limit_price ELSE quoted
        h == [NoRequest EXCEPT !.action = data.action, !.ticker = ticker,
                               !.quantity = quantity]
    IN  IF quantity.k = "nonnum" THEN Answered(h, 500)
        ELSE IF data.action \notin {"buy", "sell"} THEN Answered(h, 400)
        ELSE IF ticker = <<>> \/ FLe(quantity, Zero) THEN Answered(h, 400)
        ELSE IF quoted.k = "raise" THEN Answered(h, 400)
        ELSE IF quoted.k = "nonnum" THEN Answered(h, 500)
        ELSE IF ~portfolio.ok THEN Answered(h, 500)
        ELSE [h EXCEPT !.pc = "loaded", !.price = price,
                       !.cash = portfolio.val.cash,
                       !.holdings = portfolio.val.holdings]

\* The status code the except clauses give an exception of the engine.
StatusOf(err) == IF err \in TransactionErrors THEN 400 ELSE 500

\* execute_trade, lines 260-308, after the engine call ended with r: an
\* exception is answered with 400 or 500 and nothing is saved; otherwise the
\* ledger is saved and the response reports quantity * price at the
\* endpoint's own price.
execute_trade_respond(h, r, disk_, io) ==
    LET saved == save_portfolio(r.cash, r.holdings, disk_, io)
        done == [h EXCEPT !.pc = "done", !.traded = r.mutated, !.traded_at = r.price,
                          !.cash_after = r.cash, !.holdings = r.holdings]
    IN  IF r.outcome # "returned"
        THEN [h |-> [done EXCEPT !.status = StatusOf(r.outcome)], disk |-> disk_]
        ELSE IF saved.raised
        THEN [h |-> [done EXCEPT !.status = 500], disk |-> saved.disk]
        ELSE [h |-> [done EXCEPT !.status = 200,
                                 !.total = FMul(h.quantity, h.price)],
              disk |-> saved.disk]

\* The request bodies, and the ledger file the server starts with.
Requests ==
    [action : {"buy", "sell", "hold"},
     ticker : {<<"a">>, <<>>},
     quantity : {NonNum, Zero, Fin(1)},
     order_type : {"market", "limit"},
     limit_price : {Absent, Fin(2)}]

HttpLedger == [cash |-> Fin(6), holdings |-> [x \in {<<"A">>} |-> Fin(2)]]

InitHttp ==
    /\ cash = HttpLedger.cash
    /\ holdings = HttpLedger.holdings
    /\ snapshots = NoFile
    /\ transactions = NoHistory
    /\ cfg = CliCfg
    /\ trades = 0
    /\ lastTrade = NoTrade
    /\ disk \in {FileOf(CliPayload(HttpLedger.cash, HttpLedger.holdings)), FileOf(ListDoc)}
    /\ tmp = FileIn("missing")
    /\ saving = NoSave
    /\ loadres = NoLoad
    /\ lastOp = NoOp
    /\ pl = NoPL
    /\ procs = [serial |-> FALSE, th |-> [i \in Handlers |-> NoRequest],
                credited |-> EmptyDict, held0 |-> HttpLedger.holdings, started |-> 0]

HttpIdle == UNCHANGED <<cash, holdings, cfg, trades, lastTrade, tmp, saving, loadres, lastOp, pl>>

\* Handler i receives a request and runs up to the load of the ledger file.
HttpLoad(i) ==
    /\ procs.th[i].pc = "idle"
    /\ \E data \in Requests : \E quoted \in {ProviderRaises, NonNum, Fin(3)} :
          procs' = [procs EXCEPT !.th[i] = execute_trade_load(data, quoted, disk),
                                 !.started = @ + 1]
    /\ UNCHANGED <<disk, snapshots, transactions>>
    /\ HttpIdle

\* Handler i calls the engine on the ledger it loaded, saves and responds.
HttpTrade(i) ==
    /\ procs.th[i].pc = "loaded"
    /\ \E e \in {e \in AllEnvs : e.market = "open" /\ e.txlog = "ok"} :
       \E io \in {"ok", "oserror_open"} :
       \E r \in {IF procs.th[i].action = "buy"
                  THEN buy(procs.th[i].cash, procs.th[i].holdings, snapshots,
                           transactions, CliCfg, Str(procs.th[i].ticker),
                           procs.th[i].quantity, e)
                  ELSE sell(procs.th[i].cash, procs.th[i].holdings, snapshots,
                            transactions, CliCfg, Str(procs.th[i].ticker),
                            procs.th[i].quantity, e)} :
       \E x \in {execute_trade_respond(procs.th[i], r, disk, io)} :
          /\ (io # "ok") => r.outcome = "returned"
          /\ procs' = [procs EXCEPT !.th[i] = x.h]
          /\ disk' = x.disk
          /\ snapshots' = r.snapshots
          /\ transactions' = r.transactions
    /\ HttpIdle

NextHttp == \E i \in Handlers : HttpLoad(i) \/ HttpTrade(i)

SpecHttp == InitHttp /\ [][NextHttp]_vars

\* ================================================================== claims
\* The exceptions of steps 1-5 of a call.
Step15Errors ==
    {"InvalidTickerError", "InvalidQuantityError", "MarketClosedError",
     "PriceFetchError", "InsufficientFundsError", "InsufficientHoldingsError"}

\* The call with result r left the ledger and both files as they are now.
Untouched(r) ==
    /\ r.cash = cash
    /\ r.holdings = holdings
    /\ r.snapshots = snapshots
    /\ r.transactions = transactions

\* The call with result r consulted the collaborator who.
Consulted(r, who) == \E i \in DOMAIN r.calls : r.calls[i] = who

\* The call with result r got past ticker, quantity, market gate and price.
PastPrice(r) ==
    r.outcome \notin {"InvalidTickerError", "InvalidQuantityError",
                      "MarketClosedError", "PriceFetchError"}

\* The call with result r got past ticker, quantity and market gate.
PastGate(r) ==
    r.outcome \notin {"InvalidTickerError", "InvalidQuantityError", "MarketClosedError"}

\* The ticker under which the call a trades.
TickerOf(a) == normalize_ticker(a.ticker.s)

\* The quantity of that ticker held now (0 if absent).
OwnedOf(a) == Get(holdings, TickerOf(a), Zero)

\* quantity * price of the call a
AmountOf(a) == FMul(a.amount, a.env.price)

\* The provider raises, or returns no number, or a value <= 0.
BadPrice(p) == p.k \in {"raise", "nonnum"} \/ FLe(p, Zero)

\* ------------------------------------------------------------------- C1
\* C1 (as claimed): in every reachable state cash >= 0 and every key of
\* holdings maps to a quantity > 0.
C1_LedgerInvariant ==
    /\ FGe(cash, Zero)
    /\ \A t \in DOMAIN holdings : FGt(holdings[t], Zero)

\* ------------------------------------------------------------------- C2
\* C2: a buy or sell that raises one of the exceptions of steps 1-5 leaves
\* cash and holdings as they were and appends nothing to the audit log or to
\* the transaction history.
C2_Atomic ==
    \A a \in CallsHere :
        \A r \in {BuyOf(a), SellOf(a)} :
            r.outcome \in Step15Errors => Untouched(r)

\* After a trade, with rows in the audit log, each of the six exceptions is
\* raised by some call.
C2_Witness ==
    /\ trades > 0
    /\ Len(snapshots.lines) > 1
    /\ \A e \in Step15Errors :
          \E a \in CallsHere : BuyOf(a).outcome = e \/ SellOf(a).outcome = e

\* ------------------------------------------------------------------- C3
\* C3: a buy that gets past the price step with quantity * price <= cash
\* debits cash by quantity * price, adds the quantity to the holding of the
\* normalized ticker (0 if absent) once, and leaves every other holding alone.
C3_BuyEffect ==
    \A a \in CallsHere :
        LET r == BuyOf(a)
            t == TickerOf(a)
        IN  (PastPrice(r) /\ FLe(AmountOf(a), cash)) =>
              /\ r.cash = FSub(cash, AmountOf(a))
              /\ DOMAIN r.holdings = DOMAIN holdings \cup {t}
              /\ r.holdings[t] = FAdd(OwnedOf(a), a.amount)
              /\ \A u \in DOMAIN holdings \ {t} : r.holdings[u] = holdings[u]

\* A buy of a ticker already held, with another ticker held too, has been applied.
C3_Witness ==
    /\ lastTrade.op = "buy"
    /\ lastTrade.clean \in DOMAIN lastTrade.holdings0
    /\ Cardinality(DOMAIN holdings) > 1
    /\ FLe(FMul(lastTrade.qty, lastTrade.price), lastTrade.cash0)
    /\ cash = FSub(lastTrade.cash0, FMul(lastTrade.qty, lastTrade.price))
    /\ holdings[lastTrade.clean] =
           FAdd(lastTrade.holdings0[lastTrade.clean], lastTrade.qty)

\* ------------------------------------------------------------------- C4
\* C4: a sell that gets past the price step with 0 < quantity <= owned credits
\* cash by quantity * price, leaves owned - quantity of the ticker, and leaves
\* every other holding alone.
C4_SellEffect ==
    \A a \in CallsHere :
        LET r == SellOf(a)
            t == TickerOf(a)
        IN  (PastPrice(r) /\ FGt(a.amount, Zero) /\ FLe(a.amount, OwnedOf(a))) =>
              /\ r.cash = FAdd(cash, AmountOf(a))
              /\ Get(r.holdings, t, Zero) = FSub(OwnedOf(a), a.amount)
              /\ DOMAIN r.holdings \ {t} = DOMAIN holdings \ {t}
              /\ \A u \in DOMAIN holdings \ {t} : r.holdings[u] = holdings[u]

\* A sell of part of a holding, with another ticker held too, has been applied.
C4_Witness ==
    /\ lastTrade.op = "sell"
    /\ lastTrade.clean \in DOMAIN lastTrade.holdings0
    /\ FLt(lastTrade.qty, lastTrade.holdings0[lastTrade.clean])
    /\ Cardinality(DOMAIN holdings) > 1
    /\ cash = FAdd(lastTrade.cash0, FMul(lastTrade.qty, lastTrade.price))
    /\ holdings[lastTrade.clean] =
           FSub(lastTrade.holdings0[lastTrade.clean], lastTrade.qty)

\* ------------------------------------------------------------------- C5
\* C5: a buy that gets past the price step with quantity * price > cash raises
\* InsufficientFundsError and leaves cash and holdings alone; with
\* quantity * price = cash it is not refused, and cash becomes 0.
C5_FundsCheck ==
    \A a \in CallsHere :
        LET r == BuyOf(a) IN
        PastPrice(r) =>
          /\ FGt(AmountOf(a), cash) =>
               (r.outcome = "InsufficientFundsError" /\ r.cash = cash
                    /\ r.holdings = holdings)
          /\ FEq(AmountOf(a), cash) =>
               (r.outcome # "InsufficientFundsError" /\ r.mutated /\ r.cash = Zero
                    /\ r.holdings[TickerOf(a)] = FAdd(OwnedOf(a), a.amount))

\* A buy costing exactly the cash has been applied, and a further buy is refused.
C5_Witness ==
    /\ lastTrade.op = "buy"
    /\ FEq(FMul(lastTrade.qty, lastTrade.price), lastTrade.cash0)
    /\ cash = Zero
    /\ \E a \in CallsHere :
          FGt(AmountOf(a), cash) /\ BuyOf(a).outcome = "InsufficientFundsError"

\* ------------------------------------------------------------------- C6
\* C6: a sell that gets past the market gate with quantity > owned (owned = 0
\* for a ticker not in holdings) raises InsufficientHoldingsError and leaves
\* the ledger and the files alone.
C6_HoldingsCheck ==
    \A a \in CallsHere :
        LET r == SellOf(a) IN
        (PastGate(r) /\ FGt(a.amount, OwnedOf(a))) =>
            (r.outcome = "InsufficientHoldingsError" /\ Untouched(r))

\* After a trade, a sell of a ticker not held and a sell of more than is held
\* are both refused.
C6_Witness ==
    /\ trades > 0
    /\ \E a \in CallsHere :
          /\ TickerOf(a) \notin DOMAIN holdings
          /\ SellOf(a).outcome = "InsufficientHoldingsError"
    /\ \E a \in CallsHere :
          /\ TickerOf(a) \in DOMAIN holdings
          /\ FGt(a.amount, OwnedOf(a))
          /\ SellOf(a).outcome = "InsufficientHoldingsError"

\* ------------------------------------------------------------------- C7
\* C7: a sell of the whole holding removes the key; a sell of part of it keeps
\* the key with the remainder, which is > 0.
C7_SellRemovesKey ==
    \A a \in CallsHere :
        LET r == SellOf(a)
            t == TickerOf(a)
        IN  (PastPrice(r) /\ t \in DOMAIN holdings) =>
              /\ FEq(a.amount, holdings[t]) => t \notin DOMAIN r.holdings
              /\ (FGt(a.amount, Zero) /\ FLt(a.amount, holdings[t])) =>
                    /\ t \in DOMAIN r.holdings
                    /\ r.holdings[t] = FSub(holdings[t], a.amount)
                    /\ FGt(r.holdings[t], Zero)

\* A sell of a whole holding has been applied and the key is gone.
C7_Witness ==
    /\ lastTrade.op = "sell"
    /\ lastTrade.clean \in DOMAIN lastTrade.holdings0
    /\ FEq(lastTrade.qty, lastTrade.holdings0[lastTrade.clean])
    /\ lastTrade.clean \notin DOMAIN holdings

\* ------------------------------------------------------------------- C8
\* C8: when the price provider is consulted and raises, or returns no number,
\* or returns a value <= 0, buy and sell raise PriceFetchError and leave the
\* ledger and the files alone.
C8_PriceFetchFailed ==
    \A a \in CallsHere :
        \A r \in {BuyOf(a), SellOf(a)} :
            (Consulted(r, "price_provider") /\ BadPrice(a.env.price)) =>
                (r.outcome = "PriceFetchError" /\ Untouched(r))

\* After a trade, buy and sell meet each kind of bad price.
C8_Witness ==
    /\ trades > 0
    /\ \A p \in {ProviderRaises, NonNum, Zero} :
          /\ \E a \in CallsHere :
                a.env.price = p /\ BuyOf(a).outcome = "PriceFetchError"
          /\ \E a \in CallsHere :
                a.env.price = p /\ SellOf(a).outcome = "PriceFetchError"

\* ------------------------------------------------------------------- C9
\* The exception of steps 1-5 that ends the call with result r, if any.
FirstError(r) == IF r.outcome \in Step15Errors THEN r.outcome ELSE "passed"

\* The first failing step of the call a when the steps run in the order
\* ticker, quantity, market gate, price, funds (buy) or holdings (sell).
SpecOrder(op, a) ==
    IF ~_validate_ticker(a.ticker).ok THEN "InvalidTickerError"
    ELSE IF ~_validate_quantity(a.amount).ok THEN "InvalidQuantityError"
    ELSE IF _ensure_market_open(cfg, a.env).blocked THEN "MarketClosedError"
    ELSE IF ~_get_price(a.env.price).ok THEN "PriceFetchError"
    ELSE IF op = "buy" /\ InsufficientFunds(cash, AmountOf(a))
    THEN "InsufficientFundsError"
    ELSE IF op = "sell" /\ InsufficientHoldings(OwnedOf(a), a.amount)
    THEN "InsufficientHoldingsError"
    ELSE "passed"

\* The same with the holdings check of a sell before the price step.
HoldingsFirstOrder(a) ==
    IF ~_validate_ticker(a.ticker).ok THEN "InvalidTickerError"
    ELSE IF ~_validate_quantity(a.amount).ok THEN "InvalidQuantityError"
    ELSE IF _ensure_market_open(cfg, a.env).blocked THEN "MarketClosedError"
    ELSE IF InsufficientHoldings(OwnedOf(a), a.amount) THEN "InsufficientHoldingsError"
    ELSE IF ~_get_price(a.env.price).ok THEN "PriceFetchError"
    ELSE "passed"

\* C9 (as claimed): buy and sell both fail with the error of the first failing
\* step in the order ticker, quantity, market gate, price, funds/holdings.
C9_SpecOrder ==
    \A a \in CallsHere :
        /\ FirstError(BuyOf(a)) = SpecOrder("buy", a)
        /\ FirstError(SellOf(a)) = SpecOrder("sell", a)

\* C9 (amended): buy fails with the error of the first failing step in the
\* order ticker, quantity, market gate, price, funds; sell in the order
\* ticker, quantity, market gate, holdings, price, and a sell with
\* insufficient holdings does not consult the price provider.
C9_CheckOrder ==
    \A a \in CallsHere :
        /\ FirstError(BuyOf(a)) = SpecOrder("buy", a)
        /\ FirstError(SellOf(a)) = HoldingsFirstOrder(a)
        /\ SellOf(a).outcome = "InsufficientHoldingsError" =>
              ~Consulted(SellOf(a), "price_provider")

\* After a trade, a sell with insufficient holdings and a failing provider is
\* refused for its holdings.
C9_Witness ==
    /\ trades > 0
    /\ \E a \in CallsHere :
          /\ PastGate(SellOf(a))
          /\ BadPrice(a.env.price)
          /\ FGt(a.amount, OwnedOf(a))
          /\ SellOf(a).outcome = "InsufficientHoldingsError"

\* ------------------------------------------------------------------ C10
\* C10: with a market-open check that reports the venue not open, buy and
\* sell raise MarketClosedError without consulting the price provider and
\* leave the ledger and the files alone; with no check configured the gate
\* blocks no call, whatever the collaborators would answer.
C10_MarketGate ==
    /\ \A a \in CallsHere :
          \A r \in {BuyOf(a), SellOf(a)} :
              /\ (cfg.market_open_check /\ a.env.market = "closed"
                      /\ r.outcome \notin {"InvalidTickerError", "InvalidQuantityError"}) =>
                    /\ r.outcome = "MarketClosedError"
                    /\ ~Consulted(r, "price_provider")
                    /\ Untouched(r)
              /\ ~cfg.market_open_check => r.outcome # "MarketClosedError"
    /\ ~cfg.market_open_check =>
          \A e \in AllEnvs : ~_ensure_market_open(cfg, e).blocked

\* After a trade, with a check configured, a buy and a sell are refused
\* because the market is closed.
C10_Witness ==
    /\ trades > 0
    /\ cfg.market_open_check
    /\ \E a \in CallsHere :
          a.env.market = "closed" /\ BuyOf(a).outcome = "MarketClosedError"
    /\ \E a \in CallsHere :
          a.env.market = "closed" /\ SellOf(a).outcome = "MarketClosedError"

\* ------------------------------------------------------------------ C11
\* The manager's configuration without a market-open check.
NoCheck(c) == [c EXCEPT !.market_open_check = FALSE, !.market_state_provider = FALSE]

\* The collaborators' answers of env with a market-open check that says open.
SaysOpen(env) == [env EXCEPT !.market = "open"]

\* Two calls end the same way and leave the same ledger and files.
SameEffect(r1, r2) ==
    /\ r1.outcome = r2.outcome
    /\ r1.cash = r2.cash
    /\ r1.holdings = r2.holdings
    /\ r1.snapshots = r2.snapshots
    /\ r1.transactions = r2.transactions

\* C11: when the configured market-open check raises, buy and sell end as they
\* do with no check configured and as they do with a check that says open;
\* when the check says not open, the call raises MarketClosedError whether the
\* market-state provider answers or raises.
C11_FailOpen ==
    \A a \in CallsHere :
        /\ (cfg.market_open_check /\ a.env.market = "raise") =>
              /\ SameEffect(BuyOf(a),
                     buy(cash, holdings, snapshots, transactions, NoCheck(cfg),
                         a.ticker, a.amount, a.env))
              /\ SameEffect(SellOf(a),
                     sell(cash, holdings, snapshots, transactions, NoCheck(cfg),
                          a.ticker, a.amount, a.env))
              /\ SameEffect(BuyOf(a),
                     buy(cash, holdings, snapshots, transactions, cfg,
                         a.ticker, a.amount, SaysOpen(a.env)))
              /\ SameEffect(SellOf(a),
                     sell(cash, holdings, snapshots, transactions, cfg,
                          a.ticker, a.amount, SaysOpen(a.env)))
        /\ (cfg.market_state_provider /\ a.env.market = "closed") =>
              /\ BuyOf(a).outcome = "MarketClosedError"
              /\ SellOf(a).outcome = "MarketClosedError"
              /\ a.env.state = "raise" => BuyOf(a).state = ""

\* A trade has gone through although the market-open check raised, and a call
\* is refused for a closed market while the market-state provider raises.
C11_Witness ==
    /\ trades > 0
    /\ cfg.market_state_provider
    /\ \E a \in CallsHere :
          /\ a.env.market = "raise"
          /\ BuyOf(a).mutated
          /\ Consulted(BuyOf(a), "market_open_check")
    /\ \E a \in CallsHere :
          /\ a.env.market = "closed"
          /\ a.env.state = "raise"
          /\ Consulted(SellOf(a), "market_state_provider")
          /\ SellOf(a).outcome = "MarketClosedError"

\* ------------------------------------------------------------------ C12
\* In the call a one of the two writers fails.
WriterFails(a) ==
    \/ cfg.snapshot_store /\ a.env.snapshot \in {"oserror", "raise"}
    \/ a.env.txlog = "oserror"

\* C12 (as claimed): a buy or sell that passes all checks and whose audit-log
\* or history write fails still returns, and the ledger keeps the trade.
C12_BestEffort ==
    \A a \in CallsHere :
        /\ (~(BuyOf(a).outcome \in Step15Errors) /\ WriterFails(a)) =>
              /\ BuyOf(a).outcome = "returned"
              /\ BuyOf(a).cash = FSub(cash, AmountOf(a))
              /\ BuyOf(a).holdings[TickerOf(a)] = FAdd(OwnedOf(a), a.amount)
        /\ (~(SellOf(a).outcome \in Step15Errors) /\ WriterFails(a)) =>
              /\ SellOf(a).outcome = "returned"
              /\ SellOf(a).cash = FAdd(cash, AmountOf(a))
              /\ Get(SellOf(a).holdings, TickerOf(a), Zero) = FSub(OwnedOf(a), a.amount)

\* ------------------------------------------------------------------ C13
\* C13 (as claimed): a buy or sell that passes all checks, with both writers
\* working, completes without raising, having built one Transaction record
\* from kind, ticker, quantity, price, gross_amount, cash_after and timestamp
\* and handed it to the transaction logger.
C13_ReturnsTransaction ==
    \A a \in CallsHere :
        \A r \in {BuyOf(a), SellOf(a)} :
            (r.outcome \notin Step15Errors /\ ~WriterFails(a)) =>
                /\ r.outcome = "returned"
                /\ Consulted(r, "transaction_logger")
                /\ Transaction([kind |-> "buy", ticker |-> r.clean, quantity |-> r.qty,
                                price |-> r.price, gross_amount |-> FMul(r.qty, r.price),
                                cash_after |-> r.cash, timestamp |-> "utc"]).ok

\* ------------------------------------------------------------------ C14
\* Number of data rows of the audit log.
DataRows(file) == IF file.exists THEN Len(file.lines) - 1 ELSE 0

\* The call a writes its audit-log row: a store is configured and the write
\* does not fail.
RowWritten(a, r) == r.mutated /\ cfg.snapshot_store /\ a.env.snapshot = "ok"

\* The last line of the audit log.
LastRow(file) == file.lines[Len(file.lines)]

C16_RecordAppends ==
    \A tx \in StampedTxs \cup {PlainTx} :
        \A io \in WriteIOs :
            LET r == log_transaction(transactions, tx, io)
                n == Len(transactions.recs)
            IN  (transactions.st = "list" /\ ~r.raised /\ r.ret) =>
                  /\ r.file.st = "list"
                  /\ Len(r.file.recs) = n + 1
                  /\ \A i \in 1..n : r.file.recs[i] = transactions.recs[i]
                  /\ r.file.recs[n + 1].side = (IF tx.kind = "buy" THEN "BUY" ELSE "SELL")
                  /\ r.file.recs[n + 1].ticker = tx.ticker
                  /\ r.file.recs[n + 1].quantity = tx.quantity
                  /\ r.file.recs[n + 1].price = tx.price
                  /\ r.file.recs[n + 1].total = tx.gross_amount
                  /\ r.file.recs[n + 1].cash_after = tx.cash_after

\* A history of two records, a BUY and then a SELL, to which a third is appended.
C16_Witness ==
    /\ transactions.st = "list"
    /\ Len(transactions.recs) = 2
    /\ transactions.recs[1].side = "BUY"
    /\ transactions.recs[2].side = "SELL"
    /\ \E tx \in StampedTxs :
          /\ log_transaction(transactions, tx, "ok").ret
          /\ Len(log_transaction(transactions, tx, "ok").file.recs) = 3

\* ------------------------------------------------------------------ C17
\* C17 (as claimed): on a history file that is missing, not JSON, unreadable
\* or JSON that is no list, log_transaction does not raise; when the write
\* goes through the file holds exactly the new record, and when the write
\* fails the result is False.
C17_NeverCrashes ==
    \A tx \in StampedTxs :
        \A io \in WriteIOs :
            LET r == log_transaction(transactions, tx, io) IN
            transactions.st \in {"missing", "corrupt", "unreadable", "notlist"} =>
                /\ ~r.raised
                /\ io = "ok" =>
                      (r.ret /\ r.file.st = "list" /\ Len(r.file.recs) = 1
                          /\ r.file.recs[1].ticker = tx.ticker)
                /\ io # "ok" => ~r.ret

\* ------------------------------------------------------------------ C18
\* The ledger in memory.
Ledger == [cash |-> cash, holdings |-> holdings]

\* The ledger in memory satisfies the ledger invariant, with normalized tickers.
LedgerOK ==
    /\ FGe(cash, Zero)
    /\ \A t \in DOMAIN holdings :
          /\ FGt(holdings[t], Zero)
          /\ t # <<>>
          /\ normalize_ticker(t) = t

C19_AtomicSave ==
    /\ saving.kind = "atomic" =>
          disk \in {saving.before, FileOf(SavePayload(cash, holdings))}
    /\ saving.kind = "plain" =>
          disk \in {saving.before, FileOf(CliPayload(cash, holdings))}

\* ------------------------------------------------------------------ C20
\* The file is missing, no file, unreadable, no JSON, or JSON of a wrong
\* shape (a list, a cash that is no number).
WrongFile(f) ==
    \/ f.st \in {"missing", "dir", "unreadable", "notjson", "torn"}
    \/ f.st = "json" /\ (f.doc.top = "list" \/ f.doc.cash.k = "nonnum")

\* C20 (as claimed): on such a file portfolio.load_portfolio and
\* cli.load_portfolio both return the default ledger and do not raise.
C20_LoadNeverRaises ==
    WrongFile(disk) =>
        /\ load_portfolio(disk) = Loaded(DefaultPortfolio)
        /\ cli_load_portfolio(disk) = Loaded(DefaultPortfolio)

\* ------------------------------------------------------------------ C21
\* The file holds an object with a missing or mismatched schema version, a
\* negative cash or a negative quantity.
InvalidFile(f) ==
    /\ f.st = "json"
    /\ f.doc.top = "object"
    /\ \/ f.doc.version # SCHEMA_VERSION
       \/ FLt(f.doc.cash, Zero)
       \/ /\ f.doc.holdings.isDict
          /\ \E t \in DOMAIN f.doc.holdings.d : FLt(f.doc.holdings.d[t], Zero)

\* The ledger invariant of a ledger l.
LedgerInvariant(l) ==
    /\ FGe(l.cash, Zero)
    /\ \A t \in DOMAIN l.holdings : FGt(l.holdings[t], Zero)

\* C21 (as claimed): portfolio.load_portfolio and cli.load_portfolio answer a
\* file with a missing or mismatched schema version, a negative cash or a
\* negative quantity with the default ledger, and every ledger they return
\* satisfies the ledger invariant.
C21_LoadValidates ==
    \A r \in {load_portfolio(disk), cli_load_portfolio(disk)} :
        /\ InvalidFile(disk) => r = Loaded(DefaultPortfolio)
        /\ r.ok => LedgerInvariant(r.val)

\* ------------------------------------------------------------------ C22
\* C22 (as claimed): when the save an operation of the ledger made has failed,
\* the operation has not ended as a success: Portfolio.save has returned
\* False, Portfolio.buy and Portfolio.sell have not returned normally.
C22_SaveFailureSurfaced ==
    lastOp.saved = "False" =>
        \/ lastOp.op = "save"
        \/ lastOp.raised # "none"

\* ------------------------------------------------------------------ C23
\* The calls of Portfolio.buy and Portfolio.sell possible in a state.
OpCalls ==
    [ticker : OpTickers, quantity : OpQuantities, price : OpPrices, io : SaveIOs]

BuyDirect(a) ==
    Portfolio_buy(cash, holdings, disk, tmp, a.ticker, a.quantity, a.price, a.io)

SellDirect(a) ==
    Portfolio_sell(cash, holdings, disk, tmp, a.ticker, a.quantity, a.price, a.io)

\* C23 (as claimed): Portfolio.buy returns only when quantity > 0, price > 0
\* and quantity * price <= cash, and then cash is debited by quantity * price
\* and quantity is added to holdings[ticker]; in every other case it raises
\* its insufficient-funds ValueError and leaves cash and holdings as they were.
C23_DirectBuy ==
    \A a \in OpCalls :
        LET r == BuyDirect(a)
            cost == FMul(a.quantity, a.price)
        IN  IF FGt(a.quantity, Zero) /\ FGt(a.price, Zero) /\ FLe(cost, cash)
            THEN /\ r.raised = "none"
                 /\ r.cash = FSub(cash, cost)
                 /\ r.holdings =
                      Put(holdings, a.ticker,
                          FAdd(Get(holdings, a.ticker, Zero), a.quantity))
            ELSE /\ r.raised = "ValueError"
                 /\ r.cash = cash
                 /\ r.holdings = holdings

\* ------------------------------------------------------------------ C24
\* C24 (as claimed): Portfolio.sell returns only when the ticker is held and
\* quantity <= owned, and then cash is credited by quantity * price and the
\* holding decremented, its key removed when nothing is left; otherwise it
\* raises and leaves cash and holdings as they were; and after a call no
\* holding is negative and cash is not less than before.
C24_DirectSell ==
    \A a \in OpCalls :
        LET r == SellDirect(a)
            held == a.ticker \in DOMAIN holdings
        IN  /\ IF held /\ FLe(a.quantity, holdings[a.ticker])
               THEN /\ r.raised = "none"
                    /\ r.cash = FAdd(cash, FMul(a.quantity, a.price))
                    /\ LET left == FSub(holdings[a.ticker], a.quantity) IN
                       r.holdings = IF FLe(left, Zero) THEN Pop(holdings, a.ticker)
                                    ELSE Put(holdings, a.ticker, left)
               ELSE /\ r.raised = "ValueError"
                    /\ r.cash = cash
                    /\ r.holdings = holdings
            /\ (\A t \in DOMAIN holdings : ~FLt(holdings[t], Zero))
                   => (\A t \in DOMAIN r.holdings : ~FLt(r.holdings[t], Zero))
            /\ ~FLt(r.cash, cash)

\* ------------------------------------------------------------------ C25
\* What the position in ticker t is worth under price_map: nothing when t is
\* not held, quantity * 0 when price_map has no price of it.
WorthOf(t, price_map) ==
    IF t \notin DOMAIN holdings THEN Zero
    ELSE FMul(holdings[t], IF t \in DOMAIN price_map THEN price_map[t] ELSE Zero)

\* C25: for every price map, total_value returns cash plus the worth of each
\* held ticker, a ticker without a price being worth quantity * 0; it does not
\* raise; and a call leaves cash and holdings as they were.
C25_TotalValue ==
    /\ \A pm \in PriceMaps :
          LET r == total_value(cash, holdings, pm) IN
          /\ r.ok
          /\ r.val = FAdd(FAdd(cash, WorthOf(<<"A">>, pm)), WorthOf(<<"B">>, pm))
    /\ lastOp.op = "total_value" =>
          /\ lastOp.raised = "none"
          /\ cash = lastOp.cash0
          /\ holdings = lastOp.holdings0

\* total_value has been called on a ledger that holds A and B with a price
\* map that has a price of A alone: it has returned cash + quantity of A * 3.
C25_Witness ==
    /\ lastOp.op = "total_value"
    /\ DOMAIN holdings = {<<"A">>, <<"B">>}
    /\ FGt(holdings[<<"B">>], Zero)
    /\ FGt(holdings[<<"A">>], Zero)
    /\ lastOp.value = FAdd(cash, FMul(holdings[<<"A">>], Fin(3)))

\* ------------------------------------------------------------------ C26
\* The ticker is no string, or nothing is left of it after strip and upper.
BadTicker(t) == ~t.isStr \/ Upper(Strip(t.s)) = <<>>

\* The quantity is no number, or is <= 0.
BadQuantity(q) == q.k = "nonnum" \/ FLe(q, Zero)

\* The key t is stripped and upper-case.
Normalized(t) == t # <<>> /\ Strip(t) = t /\ Upper(t) = t

\* C26: buy and sell answer a bad ticker with InvalidTickerError and, the
\* ticker being good, a bad quantity with InvalidQuantityError, having
\* consulted no collaborator and touched nothing; every other call goes on
\* under the stripped, upper-cased ticker, writes no other key into holdings,
\* and a buy that goes through adds its quantity to the position of that key;
\* every key of holdings is stripped and upper-case.
C26_Validation ==
    /\ \A t \in DOMAIN holdings : Normalized(t)
    /\ \A a \in CallsHere :
          \A r \in {BuyOf(a), SellOf(a)} :
              IF BadTicker(a.ticker)
              THEN r.outcome = "InvalidTickerError" /\ r.calls = <<>> /\ Untouched(r)
              ELSE IF BadQuantity(a.amount)
              THEN r.outcome = "InvalidQuantityError" /\ r.calls = <<>> /\ Untouched(r)
              ELSE /\ r.outcome \notin {"InvalidTickerError", "InvalidQuantityError"}
                   /\ r.clean = Upper(Strip(a.ticker.s))
                   /\ DOMAIN r.holdings \subseteq DOMAIN holdings \cup {Upper(Strip(a.ticker.s))}
                   /\ (r = BuyOf(a) /\ r.mutated) =>
                          r.holdings[Upper(Strip(a.ticker.s))] =
                              FAdd(Get(holdings, Upper(Strip(a.ticker.s)), Zero), a.amount)

\* A buy of "A" has raised the position A, and a buy of "a " would raise the
\* same position again; a buy of " b" has opened the position B.
C26_Witness ==
    /\ lastTrade.op = "buy"
    /\ DOMAIN holdings = {<<"A">>, <<"B">>}
    /\ FGt(holdings[<<"A">>], Fin(2))
    /\ \E a \in CallsHere :
          /\ a.ticker = Str(<<"a", " ">>)
          /\ BuyOf(a).mutated
          /\ FGt(BuyOf(a).holdings[<<"A">>], holdings[<<"A">>])
          /\ DOMAIN BuyOf(a).holdings = DOMAIN holdings

\* ------------------------------------------------------------------ C27
\* The history file is missing, cannot be read or parsed, or holds no record.
NoHistoryData == transactions.st # "list" \/ transactions.recs = <<>>

\* C27: on a history that is missing, unreadable or empty, compute_pl on the
\* file and compute_pl on an empty DataFrame return no_data = true, the three
\* P/L values 0 and an empty per_ticker map; they do not raise and do not
\* call the price fetcher, whatever prices are injected.
C27_NoData ==
    NoHistoryData =>
        \A lp \in LatestPrices, f \in Fetches :
            \A r \in {compute_pl(NoFrame, transactions, lp, f),
                       compute_pl(EmptyFrame, transactions, lp, f)} :
                /\ r.raised = "none"
                /\ r.no_data
                /\ r.realized_pl = RInt(0)
                /\ r.unrealized_pl = RInt(0)
                /\ r.total_pl = RInt(0)
                /\ r.per_ticker = EmptyDict
                /\ r.fetched = {}

\* compute_pl has been called on a history file that cannot be read and has
\* returned the result without data.
C27_Witness ==
    /\ transactions.st \in {"unreadable", "corrupt"}
    /\ pl.how = "file"
    /\ pl.res.no_data
    /\ pl.res.raised = "none"
    /\ pl.res.fetched = {}

\* ------------------------------------------------------------------ C28
\* The rows compute_pl replays when it reads the history file.
RowsReplayed == load_transactions_df(transactions).val.rows

\* The row as normalize_transactions_df leaves it.
Cased(row) == [row EXCEPT !.ticker = Upper(Strip(@)), !.side = UpperSide(@)]

\* The smaller of q and Q.
Smaller(q, Q) == IF RLe(q, Q) THEN q ELSE Q

\* What is tracked of ticker t in s: cost C and quantity Q, 0 before its
\* first record.
TrackedCost(s, t) == Get(s.cost, t, RInt(0))

TrackedQty(s, t) == Get(s.qty, t, RInt(0))

\* What a position left in t adds to the unrealized P/L at the price latest.
Contribution(s, t, latest) ==
    IF RGt(TrackedQty(s, t), RInt(0))
    THEN RMul(RSub(latest, RDiv(TrackedCost(s, t), TrackedQty(s, t))), TrackedQty(s, t))
    ELSE RInt(0)

\* The history of the example, and the result for the latest price 115.
ExampleRows ==
    <<Row(<<"A">>, "BUY", RInt(10), RInt(100)),
      Row(<<"A">>, "BUY", RInt(10), RInt(110)),
      Row(<<"A">>, "SELL", RInt(5), RInt(120))>>

ExampleResult ==
    compute_pl(DataFrame(TRUE, ExampleRows), NoHistory,
               [x \in {<<"A">>} |-> RInt(115)], EmptyDict)

\* C28: replayed after the history, a BUY q@p adds q*p to the cost and q to
\* the quantity of its ticker; a SELL q@p on a tracked quantity Q > 0 and cost
\* C adds (p - C/Q) * min(q, Q) to the realized P/L and takes min(q, Q) off
\* the quantity and (C/Q) * min(q, Q) off the cost; the realized P/L returned
\* is the one tracked, the unrealized P/L is the sum of (latest - C/Q) * Q
\* over the positions left, the total is their sum (each rounded to 4
\* places); the example gives 75, 150 and 225 with 15 shares at 105.
C28_AverageCost ==
    /\ LET s == Replay(RowsReplayed) IN
       /\ \A row \in {Cased(g) : g \in GoodRows} :
             LET s1 == Replay(Append(RowsReplayed, row))
                 t == row.ticker
                 q == row.quantity
                 p == row.price
                 C == TrackedCost(s, t)
                 Q == TrackedQty(s, t)
             IN  /\ row.side = "BUY" =>
                       /\ s1.cost[t] = RAdd(C, RMul(q, p))
                       /\ s1.qty[t] = RAdd(Q, q)
                       /\ s1.realized = s.realized
                 /\ (row.side = "SELL" /\ RGt(Q, RInt(0))) =>
                       /\ s1.realized =
                            RAdd(s.realized, RMul(RSub(p, RDiv(C, Q)), Smaller(q, Q)))
                       /\ s1.qty[t] = RSub(Q, Smaller(q, Q))
                       /\ s1.cost[t] = RSub(C, RMul(RDiv(C, Q), Smaller(q, Q)))
                 /\ \A u \in DOMAIN s.qty \ {t} :
                       s1.qty[u] = s.qty[u] /\ s1.cost[u] = s.cost[u]
       /\ RowsReplayed # <<>> =>
             LET r == compute_pl(NoFrame, transactions,
                                 [x \in {<<"A">>, <<"B">>} |-> RInt(2)], EmptyDict)
                 unrealized == RAdd(Contribution(s, <<"A">>, RInt(2)),
                                    Contribution(s, <<"B">>, RInt(2)))
             IN  /\ r.realized_pl = Round4(s.realized)
                 /\ r.unrealized_pl = Round4(unrealized)
                 /\ r.total_pl = Round4(RAdd(s.realized, unrealized))
    /\ ExampleResult.realized_pl = RInt(75)
    /\ ExampleResult.unrealized_pl = RInt(150)
    /\ ExampleResult.total_pl = RInt(225)
    /\ ExampleResult.per_ticker[<<"A">>].qty = RInt(15)
    /\ ExampleResult.per_ticker[<<"A">>].avg_cost = RInt(105)

\* compute_pl has read the history BUY 1@1, BUY 2@3, SELL 1@3: the average
\* cost is 7/3, the realized P/L 2/3, and the 2 shares left are worth
\* (2 - 7/3) * 2 = -2/3 at the latest price 2.
C28_Witness ==
    /\ pl.how = "file"
    /\ pl.rows = <<Row(<<"A">>, "BUY", RInt(1), RInt(1)),
                   Row(<<"A">>, "BUY", RInt(2), RInt(3)),
                   Row(<<"A">>, "SELL", RInt(1), RInt(3))>>
    /\ pl.res.realized_pl = Rat(6667, 10000)
    /\ pl.res.unrealized_pl = Rat(0 - 6667, 10000)
    /\ pl.res.per_ticker[<<"A">>].qty = RInt(2)
    /\ pl.res.per_ticker[<<"A">>].avg_cost = Rat(23333, 10000)

\* ------------------------------------------------------------------ C29
\* The rows compute_pl replays when the caller passes the history in.
RowsPassed == FrameOfFile.rows

\* Every tracked quantity and cost of s is >= 0.
TrackedNonNegative(s) ==
    \A t \in DOMAIN s.qty :
        RLe(RInt(0), s.qty[t]) /\ RLe(RInt(0), s.cost[t])

\* A SELL record after the rows h is skipped when nothing is tracked of its
\* ticker, and sells the tracked quantity when it is larger than that.
SellCapped(h) ==
    \A row \in {r \in GoodRows \cup BadRows : r.side = "SELL" /\ r.quantity.k = "fin"} :
        LET s == Replay(h)
            s1 == Replay(Append(h, row))
            Q == TrackedQty(s, row.ticker)
        IN  /\ RLe(Q, RInt(0)) =>
                  /\ s1.realized = s.realized
                  /\ TrackedQty(s1, row.ticker) = Q
                  /\ TrackedCost(s1, row.ticker) = TrackedCost(s, row.ticker)
            /\ (RGt(Q, RInt(0)) /\ RGt(row.quantity, Q)) =>
                  TrackedQty(s1, row.ticker) = RInt(0)

\* C29 (as claimed): after every record of every history, read from the file
\* or passed in, each tracked quantity and cost is >= 0; a SELL met while the
\* tracked quantity is <= 0 changes nothing, and a SELL larger than the
\* tracked quantity sells the tracked quantity.
C29_TrackedNonNegative ==
    /\ TrackedNonNegative(Replay(RowsReplayed))
    /\ SellCapped(RowsReplayed)
    /\ FrameOfFile.cols =>
          /\ TrackedNonNegative(Replay(RowsPassed))
          /\ SellCapped(RowsPassed)

\* ------------------------------------------------------------------ C30
\* The record lacks a required field, has a quantity or price that is no
\* number or is <= 0, or a side that is neither BUY nor SELL.
Malformed(row) ==
    \/ row.side = "absent"
    \/ row.quantity.k # "fin"
    \/ row.price.k # "fin"
    \/ RLe(row.quantity, RInt(0))
    \/ RLe(row.price, RInt(0))
    \/ UpperSide(row.side) \notin {"BUY", "SELL"}

\* The records without the malformed ones, in order.
RECURSIVE WellFormed(_)
WellFormed(recs) ==
    IF recs = <<>> THEN <<>>
    ELSE IF Malformed(Head(recs)) THEN WellFormed(Tail(recs))
    ELSE <<Head(recs)>> \o WellFormed(Tail(recs))

\* The DataFrame of the records recs, passed in by a caller.
FrameOf(recs) == IF recs = <<>> THEN EmptyFrame ELSE read_json(recs)

\* C30 (as claimed): compute_pl does not raise, and returns what it returns
\* for the history without its malformed records, on the history file and on
\* the history passed in as a DataFrame.
C30_MalformedRowsIgnored ==
    transactions.st = "list" =>
        \A lp \in LatestPrices, f \in Fetches :
            LET clean == [transactions EXCEPT !.recs = WellFormed(@)] IN
            /\ compute_pl(NoFrame, transactions, lp, f).raised = "none"
            /\ compute_pl(NoFrame, transactions, lp, f) =
                   compute_pl(NoFrame, clean, lp, f)
            /\ compute_pl(FrameOf(transactions.recs), transactions, lp, f).raised = "none"
            /\ compute_pl(FrameOf(transactions.recs), transactions, lp, f) =
                   compute_pl(FrameOf(clean.recs), clean, lp, f)

\* ------------------------------------------------------------------ C31
\* The keys of the injected prices lp that name the ticker t.
InjectedFor(lp, t) == {k \in DOMAIN lp : Upper(k) = t}

\* The fetcher f made to return a price for every ticker.
Fetching(f) == [x \in {<<"A">>, <<"B">>} |-> IF x \in DOMAIN f THEN f[x] ELSE RInt(5)]

\* C31: for each ticker of which a quantity > 0 is left, compute_pl values
\* it at the injected price when there is one, else at the fetched price;
\* when the fetch fails the ticker is in neither per_ticker nor
\* unrealized_pl, compute_pl does not raise, and realized_pl and the figures
\* of the other tickers are what they are when that fetch succeeds.
C31_LatestPrice ==
    RowsReplayed # <<>> =>
        \A lp \in LatestPrices, f \in Fetches :
            LET r == compute_pl(NoFrame, transactions, lp, f)
                full == compute_pl(NoFrame, transactions, lp, Fetching(f))
                s == Replay(RowsReplayed)
                left == {t \in DOMAIN s.qty : RGt(s.qty[t], RInt(0))}
                priced == {t \in left : InjectedFor(lp, t) # {} \/ t \in DOMAIN f}
            IN  /\ r.raised = "none"
                /\ DOMAIN r.per_ticker = priced
                /\ \A t \in priced :
                      /\ InjectedFor(lp, t) # {} =>
                            \E k \in InjectedFor(lp, t) :
                                r.per_ticker[t].latest_price = Round4(lp[k])
                      /\ InjectedFor(lp, t) = {} =>
                            r.per_ticker[t].latest_price = Round4(f[t])
                      /\ r.per_ticker[t] = full.per_ticker[t]
                /\ r.realized_pl = full.realized_pl
                /\ r.unrealized_pl =
                      Round4(RAdd(IF <<"A">> \in priced
                                  THEN Contribution(s, <<"A">>, LatestOf(<<"A">>, UpperKeys(lp), f))
                                  ELSE RInt(0),
                                  IF <<"B">> \in priced
                                  THEN Contribution(s, <<"B">>, LatestOf(<<"B">>, UpperKeys(lp), f))
                                  ELSE RInt(0)))

\* compute_pl has read a history that leaves positions in A and B, with a
\* price injected for A (as "a") and a fetcher that fails for B: A is valued
\* at the injected 4, B is left out.
C31_Witness ==
    /\ pl.how = "file"
    /\ pl.rows = transactions.recs
    /\ LET s == Replay(RowsReplayed) IN
       /\ DOMAIN s.qty = {<<"A">>, <<"B">>}
       /\ RGt(s.qty[<<"A">>], RInt(0))
       /\ RGt(s.qty[<<"B">>], RInt(0))
    /\ pl.res.raised = "none"
    /\ DOMAIN pl.res.per_ticker = {<<"A">>}
    /\ pl.res.per_ticker[<<"A">>].latest_price = RInt(4)
    /\ pl.res.fetched = {<<"B">>}

\* ------------------------------------------------------------------ C32
\* The shares of ticker t the ledger held when the threads started.
HeldAtStart(t) == Get(procs.held0, t, Zero)

\* Cash has been credited for more shares of some ticker than were owned.
Oversold == \E t \in DOMAIN procs.credited : FGt(procs.credited[t], HeldAtStart(t))

\* C32: when the calls of sell on one ledger are serialized, cash is never
\* credited for more shares of a ticker than were owned (cash being a
\* number: after the sale of a NaN quantity it is NaN).
C32_SerializedSells == (procs.serial /\ cash.k = "fin") => ~Oversold

\* Not serialized: both threads have passed the holdings check for the two
\* shares of A before either mutated, and both have mutated: cash holds the
\* proceeds of four shares at 3 where two were owned.
C32_Witness ==
    /\ ~procs.serial
    /\ \A i \in RaceThreads : procs.th[i].pc = "idle"
    /\ procs.started = 2
    /\ Get(procs.credited, <<"A">>, Zero) = Fin(4)
    /\ HeldAtStart(<<"A">>) = Fin(2)
    /\ cash = Fin(18)
    /\ Oversold

\* ------------------------------------------------------------------ C33
\* The audit log snap and the history hist are in step: as many data rows as
\* records, and the i-th row and the i-th record agree on side/event,
\* ticker, quantity, price and cash.
InStep(snap, hist) ==
    /\ DataRows(snap) = Len(hist.recs)
    /\ \A i \in 1..Len(hist.recs) :
          LET row == snap.lines[i + 1]
              rec == hist.recs[i]
          IN  /\ row.event = rec.side
              /\ row.ticker = rec.ticker
              /\ row.quantity = rec.quantity
              /\ row.price = rec.price
              /\ row.cash = rec.cash_after

\* C33 (as claimed): with a SnapshotStore and working writers, a call made
\* when the audit log and the history are in step leaves them in step, and a
\* call that mutates the ledger appends the row, then the record, and
\* returns.
C33_LogsInStep ==
    (cfg.snapshot_store /\ InStep(snapshots, transactions)) =>
        \A a \in CallsHere :
            \A r \in {BuyOf(a), SellOf(a)} :
                ~WriterFails(a) =>
                    /\ InStep(r.snapshots, r.transactions)
                    /\ r.mutated =>
                          /\ DataRows(r.snapshots) = DataRows(snapshots) + 1
                          /\ Len(r.transactions.recs) = Len(transactions.recs) + 1
                          /\ r.outcome = "returned"

\* ------------------------------------------------------------------ C34
\* The cash_after of the last record of the history hist, the cash c0 the
\* chain starts from when there is no record.
ChainEnd(hist, c0) ==
    IF hist.recs = <<>> THEN c0 ELSE hist.recs[Len(hist.recs)].cash_after

\* The record rec continues a chain that stands at c.
Continues(rec, c) ==
    \/ rec.side = "BUY" /\ rec.cash_after = FSub(c, rec.total)
    \/ rec.side = "SELL" /\ rec.cash_after = FAdd(c, rec.total)

\* C34 (as claimed): when the chain of the history ends at the ledger's
\* cash, a trade whose writers work appends one record that continues the
\* chain and whose cash_after is the ledger's cash after the trade.
C34_CashChain ==
    ChainEnd(transactions, cash) = cash =>
        \A a \in CallsHere :
            \A r \in {BuyOf(a), SellOf(a)} :
                (r.mutated /\ ~WriterFails(a)) =>
                    /\ Len(r.transactions.recs) = Len(transactions.recs) + 1
                    /\ SubSeq(r.transactions.recs, 1, Len(transactions.recs)) = transactions.recs
                    /\ Continues(r.transactions.recs[Len(r.transactions.recs)], cash)
                    /\ ChainEnd(r.transactions, cash) = r.cash

\* ------------------------------------------------------------------ C35
\* Cash plus the position in ticker t valued at price p.
ValueAt(cash_, holdings_, t, p) == FAdd(cash_, FMul(Get(holdings_, t, Zero), p))

\* C35 (as claimed): for every buy and sell that trades, cash plus the
\* position in the traded ticker at the trade price is the same before and
\* after the call, and the row written carries that value as total_value.
C35_ValueNeutral ==
    \A a \in CallsHere :
        \A r \in {BuyOf(a), SellOf(a)} :
            r.mutated =>
                /\ ValueAt(r.cash, r.holdings, r.clean, r.price)
                      = ValueAt(cash, holdings, r.clean, r.price)
                /\ RowWritten(a, r) =>
                      LastRow(r.snapshots).total_value
                          = ValueAt(cash, holdings, r.clean, r.price)

\* The same for the quantities that are numbers.
ValueNeutralOfNumbers ==
    \A a \in CallsHere :
        \A r \in {BuyOf(a), SellOf(a)} :
            (r.mutated /\ a.amount.k = "fin") =>
                /\ ValueAt(r.cash, r.holdings, r.clean, r.price)
                      = ValueAt(cash, holdings, r.clean, r.price)
                /\ RowWritten(a, r) =>
                      LastRow(r.snapshots).total_value
                          = ValueAt(cash, holdings, r.clean, r.price)

\* ------------------------------------------------------------------ C36
\* A number of the history file as pandas reads it.
AsRat(f) == IF f.k = "fin" THEN RInt(f.v) ELSE RNaN

\* The history hist as the file the analytics load.
AsHistoryFile(hist) ==
    [st |-> hist.st,
     recs |-> [i \in DOMAIN hist.recs |->
                  Row(hist.recs[i].ticker, hist.recs[i].side,
                      AsRat(hist.recs[i].quantity), AsRat(hist.recs[i].price))]]

\* The quantity of ticker t that is left when the history hist is replayed.
Remaining(hist, t) ==
    Get(Replay(load_transactions_df(AsHistoryFile(hist)).val.rows).qty, t, RInt(0))

\* Replaying hist gives, for every ticker, the quantity held in holdings_.
Refines(hist, holdings_) ==
    \A t \in {<<"A">>, <<"B">>} : Remaining(hist, t) = AsRat(Get(holdings_, t, Zero))

\* C36 (as claimed): when replaying the history gives the ledger's holdings
\* (as it does for empty holdings and an empty history), it still does after
\* every engine call whose writers work.
C36_HistoryRefinesLedger ==
    Refines(transactions, holdings) =>
        \A a \in CallsHere :
            \A r \in {BuyOf(a), SellOf(a)} :
                ~WriterFails(a) => Refines(r.transactions, r.holdings)

\* ------------------------------------------------------------------ C37
\* What the commands possible in the current state leave.
Commands ==
    {cmd_buy(disk, snapshots, transactions, c.ticker, c.amount, c.env, c.io) : c \in CmdArgs}
    \cup {cmd_sell(disk, snapshots, transactions, c.ticker, c.amount, c.env, c.io) : c \in CmdArgs}

\* The command that left x added a row to the audit log.
RowAdded(x) == DataRows(x.snapshots) > DataRows(snapshots)

\* The ledger file holds the ledger as the command that left x traded it.
Persisted(x) == x.disk = FileOf(CliPayload(x.cash, x.holdings))

\* C37 (as claimed): a command whose trade did not go through returns 1 and
\* leaves the ledger file as it was; a command that returns 0 has traded and
\* the file holds the loaded ledger with that trade; and a command that adds
\* a row to the audit log has persisted the ledger with the row's trade.
C37_CommandsPersist ==
    \A x \in Commands :
        /\ ~x.traded => (x.code = 1 /\ x.disk = disk)
        /\ x.code = 0 => (x.traded /\ Persisted(x))
        /\ RowAdded(x) => Persisted(x)

\* ------------------------------------------------------------------ C38
\* What safe_dispatch leaves for the lines possible in the current state.
Dispatched ==
    UNION {{[line |-> l, deps |-> d,
             x |-> safe_dispatch(l, cash, holdings, snapshots, transactions, disk, d)] :
               d \in DepsOf(l)} : l \in Lines}

\* The loop is safe: no exception leaves safe_dispatch, the answer is True
\* for every line but exit and quit, every exception of dispatch_line is
\* answered with a message, and a ledger the engine mutated stays mutated.
LoopSafe ==
    \A c \in Dispatched :
        /\ c.x.escaped = "none"
        /\ c.x.ret = (Lower(c.line.word) \notin {"exit", "quit"})
        /\ c.x.left.err # "none" => c.x.message # "none"

\* C38 (as claimed): the loop is safe, and a trade that passes the engine's
\* checks is followed by the save of the ledger; when that save fails, the
\* failure is what the message reports and the ledger in memory holds the
\* trade.
C38_SafeDispatch ==
    /\ LoopSafe
    /\ \A c \in Dispatched :
          (c.x.left.traded /\ c.deps.env.snapshot = "ok") =>
              /\ c.x.left.saved # "notcalled"
              /\ c.deps.io # "ok" =>
                    /\ c.x.message = "File error"
                    /\ <<c.x.left.cash, c.x.left.holdings>> # <<cash, holdings>>

\* ------------------------------------------------------------------ C39
\* The handlers that have answered a request whose trade the engine applied
\* to the ledger it was given.
Applied == {i \in Handlers : procs.th[i].pc = "done" /\ procs.th[i].traded}

\* What the trade of handler i adds to the cash and to the holding of A.
CashDelta(i) == FSub(procs.th[i].cash_after, procs.th[i].cash)

RECURSIVE SumOver(_, _)
SumOver(is, start) ==
    IF is = {} THEN start
    ELSE LET i == CHOOSE j \in is : TRUE
         IN  FAdd(SumOver(is \ {i}, start), CashDelta(i))

CashChange(i) ==
    IF FLt(procs.th[i].cash_after, procs.th[i].cash)
    THEN FSub(procs.th[i].cash, procs.th[i].cash_after)
    ELSE FSub(procs.th[i].cash_after, procs.th[i].cash)

====
